---- MODULE Spec2Model ----
(***************************************************************************)
(* Model of arnehormann/sqlinternals.                                      *)
(*                                                                         *)
(*  - sqlinternals.Inspect in its three source versions                    *)
(*      "offset"  : src/inspect.go               (helpers + unsafe offsets)*)
(*      "reflect" : src/mysqlinternals/unsafe.go (second part, reflect)    *)
(*      "inline"  : src/unnamed/part_000         (unsafe offsets, inlined) *)
(*  - the mysql column extraction in its two source versions               *)
(*      "mysql"          : src/mysql/unsafe.go          (Columns)          *)
(*      "mysqlinternals" : src/mysqlinternals/unsafe.go (driverRows,       *)
(*                                                 Columns, IsBinary)      *)
(*    with the process-wide cache structsChecked / failedInit / initMutex, *)
(*    the layout probe initOffsets and the structural matchers.            *)
(***************************************************************************)
EXTENDS Integers, Sequences, FiniteSets, TLC

(***************************************************************************)
(* reflect.Type descriptors.  Every descriptor has the same five fields:   *)
(* kind, name (reflect.Type.Name(): "" for unnamed composite types), size, *)
(* elem (<<>> or <<element type>>) and fields (struct fields in order,     *)
(* each [name, offset, type]).  Offsets and sizes are those of a 64-bit    *)
(* build.                                                                  *)
(***************************************************************************)
Scalar(k, sz) == [kind |-> k, name |-> k, size |-> sz, elem |-> <<>>, fields |-> <<>>]

PtrTo(t) == [kind |-> "ptr", name |-> "", size |-> 8, elem |-> <<t>>, fields |-> <<>>]

SliceOf(t) == [kind |-> "slice", name |-> "", size |-> 24, elem |-> <<t>>, fields |-> <<>>]

StructOf(n, sz, fs) == [kind |-> "struct", name |-> n, size |-> sz, elem |-> <<>>, fields |-> fs]

Fld(n, off, t) == [name |-> n, offset |-> off, type |-> t]

tString == Scalar("string", 16)

tBool == Scalar("bool", 1)

tUint8 == Scalar("uint8", 1)

tUint16 == Scalar("uint16", 2)

\* reflect.Type.Elem()
Elem(t) == t.elem[1]

\* reflect.Type.NumField()
NumField(t) == Len(t.fields)

\* reflect.Type.FieldByName(name): [ok, field]; every lookup of the code is
\* for a field declared directly in the struct it is applied to
FieldByName(t, n) ==
    LET hits == {i \in 1..Len(t.fields) : t.fields[i].name = n}
    IN  IF t.kind = "struct" /\ hits # {}
        THEN [ok |-> TRUE, field |-> t.fields[CHOOSE i \in hits : \A j \in hits : i <= j]]
        ELSE [ok |-> FALSE, field |-> Fld("", 0, tBool)]

(***************************************************************************)
(* The struct templates the two versions compare against.                  *)
(***************************************************************************)
\* dummy for mysqlRows: type mysqlConn struct{}
mysqlConn == StructOf("mysqlConn", 0, <<>>)

\* src/mysql/unsafe.go: mysqlField {name, fieldType, flags}
mysqlFieldV1 ==
    StructOf("mysqlField", 24,
        <<Fld("name", 0, tString), Fld("fieldType", 16, tUint8), Fld("flags", 18, tUint16)>>)

\* src/mysql/unsafe.go: mysqlRows {mc, binary, columns, eof}
mysqlRowsV1 ==
    StructOf("mysqlRows", 48,
        <<Fld("mc", 0, PtrTo(mysqlConn)), Fld("binary", 8, tBool),
          Fld("columns", 16, SliceOf(mysqlFieldV1)), Fld("eof", 40, tBool)>>)

\* src/mysqlinternals/unsafe.go: mysqlField {tableName, name, flags, fieldType, decimals}
mysqlFieldV2 ==
    StructOf("mysqlField", 40,
        <<Fld("tableName", 0, tString), Fld("name", 16, tString), Fld("flags", 32, tUint16),
          Fld("fieldType", 34, tUint8), Fld("decimals", 35, tUint8)>>)

\* src/mysqlinternals/unsafe.go: resultSet {columns, done}
resultSet ==
    StructOf("resultSet", 32,
        <<Fld("columns", 0, SliceOf(mysqlFieldV2)), Fld("done", 24, tBool)>>)

\* src/mysqlinternals/unsafe.go: mysqlRows {mc, rs}
mysqlRowsV2 ==
    StructOf("mysqlRows", 40,
        <<Fld("mc", 0, PtrTo(mysqlConn)), Fld("rs", 8, resultSet)>>)

(***************************************************************************)
(* The structural matchers.  Outcomes are "true", "false" and "hang" (the  *)
(* inner loop of the source neither ends nor advances on two identical     *)
(* interface types).                                                       *)
(***************************************************************************)
ContainerKinds == {"array", "chan", "map", "ptr", "slice"}

RECURSIVE descendUnsafe(_, _, _)
\* the inner `for done := false; !done;` loop of canConvertUnsafe
descendUnsafe(tsf, ttf, recurseStructs) ==
    IF tsf.kind # ttf.kind THEN [st |-> "false", a |-> tsf, b |-> ttf]
    ELSE IF tsf.kind \in ContainerKinds THEN descendUnsafe(Elem(tsf), Elem(ttf), recurseStructs)
    ELSE IF tsf.kind = "interface"
         THEN [st |-> IF tsf # ttf THEN "false" ELSE "hang", a |-> tsf, b |-> ttf]
    ELSE IF tsf.kind = "struct"
         THEN [st |-> IF recurseStructs <= 0 /\ tsf.name # ttf.name THEN "false" ELSE "done",
               a |-> tsf, b |-> ttf]
    ELSE [st |-> "done", a |-> tsf, b |-> ttf]

RECURSIVE canConvertUnsafe(_, _, _)
RECURSIVE fieldLoopUnsafe(_, _, _, _)
\* the `for i, max := 0, from.NumField(); i < max; i++` loop of canConvertUnsafe
fieldLoopUnsafe(from, to, recurseStructs, i) ==
    IF i > NumField(from) THEN "true"
    ELSE LET sf == from.fields[i]
             tf == to.fields[i]
         IN  IF sf.name # tf.name \/ sf.offset # tf.offset THEN "false"
             ELSE LET d == descendUnsafe(sf.type, tf.type, recurseStructs)
                  IN  IF d.st # "done" THEN d.st
                      ELSE IF recurseStructs > 0
                           THEN LET r == canConvertUnsafe(d.a, d.b, recurseStructs - 1)
                                IN  IF r # "true" THEN r
                                    ELSE fieldLoopUnsafe(from, to, recurseStructs, i + 1)
                           ELSE fieldLoopUnsafe(from, to, recurseStructs, i + 1)

\* canConvertUnsafe accepting a `from` with fewer fields than `to`
canConvertUnsafe_prefix(from, to, recurseStructs) ==
    IF \/ from.kind # "struct"
       \/ from.kind # to.kind
       \/ from.name # to.name
       \/ NumField(from) > NumField(to)
    THEN "false"
    ELSE fieldLoopUnsafe(from, to, recurseStructs, 1)

\* src/mysql/unsafe.go canConvertUnsafe
canConvertUnsafe(from, to, recurseStructs) ==
    IF \/ from.kind # "struct"
       \/ from.kind # to.kind
       \/ from.name # to.name
       \/ NumField(from) # NumField(to)
    THEN "false"
    ELSE fieldLoopUnsafe(from, to, recurseStructs, 1)

RECURSIVE descend(_, _)
\* the inner loop of canConvert
descend(tsf, ttf) ==
    IF tsf.kind # ttf.kind THEN "false"
    ELSE IF tsf.kind \in ContainerKinds THEN descend(Elem(tsf), Elem(ttf))
    ELSE IF tsf.kind = "interface" THEN (IF tsf # ttf THEN "false" ELSE "hang")
    ELSE IF tsf.kind = "struct" THEN (IF tsf.name # ttf.name THEN "false" ELSE "done")
    ELSE "done"

RECURSIVE fieldLoop(_, _, _)
\* the field loop of canConvert
fieldLoop(from, to, i) ==
    IF i > NumField(from) THEN "true"
    ELSE LET sf == from.fields[i]
             tf == to.fields[i]
         IN  IF sf.name # tf.name \/ sf.offset # tf.offset THEN "false"
             ELSE LET d == descend(sf.type, tf.type)
                  IN  IF d # "done" THEN d ELSE fieldLoop(from, to, i + 1)

\* src/mysqlinternals/unsafe.go canConvert
canConvert(from, to) ==
    IF \/ from.kind # "struct"
       \/ from.kind # to.kind
       \/ from.size # to.size
       \/ from.name # to.name
       \/ NumField(from) # NumField(to)
    THEN "false"
    ELSE fieldLoop(from, to, 1)

(***************************************************************************)
(* Values handed around as interface{} / driver.Rows / error.              *)
(*   Value  : [dyn, ref, str]  dynamic type id, reference identity (0 for  *)
(*            a nil pointer or a non-pointer), string payload              *)
(*   error  : its message, "" for a nil error                              *)
(*   Cursor : the argument of Inspect / Columns / IsBinary:                *)
(*            kind    "nil" (untyped nil), "other" (any other type),       *)
(*                    "row" for a *sql.Row, "rows" for a *sql.Rows         *)
(*            isNil   the *sql.Row / *sql.Rows pointer itself is nil       *)
(*            hasRows sql.Row.rows is non-nil                               *)
(*            err     sql.Row.err                                          *)
(*            rowsi   sql.Rows.rowsi (of the nested Rows for a Row)        *)
(***************************************************************************)
NilValue == [dyn |-> "", ref |-> 0, str |-> ""]

errArgNil == "argument must not be nil"

errArgWrongType == "argument was not *sql.Row or *sql.Rows"

errRowRows == "'rows *sql.Rows' in sql.Row could not be read"

errRowRowsNil == "'err' xor 'rows' in sql.Row must be nil"

errRowErr == "'err error' in sql.Row could not be read"

errRowErrNil == "'err error' in sql.Row is nil"

errRowsRowsi == "'rowsi driver.Rows' in sql.Rows could not be read"

errRowsRowsiNil == "'rowsi driver.Rows' in sql.Rows is nil"

\* an internalErr constant boxed into an interface{}
ErrorValue(e) == [dyn |-> "sqlinternals.internalErr", ref |-> 0, str |-> e]

NilCursor == [kind |-> "nil", isNil |-> FALSE, hasRows |-> FALSE, err |-> "", rowsi |-> NilValue]

OtherCursor == [kind |-> "other", isNil |-> FALSE, hasRows |-> FALSE, err |-> "", rowsi |-> NilValue]

\* &sql.Rows{rowsi: h}
RowsCursor(h) == [kind |-> "rows", isNil |-> FALSE, hasRows |-> FALSE, err |-> "", rowsi |-> h]

\* &sql.Row{rows: &sql.Rows{rowsi: h}}
RowCursor(h) == [kind |-> "row", isNil |-> FALSE, hasRows |-> TRUE, err |-> "", rowsi |-> h]

\* &sql.Row{err: e}   (e = "" leaves both fields nil)
RowErrCursor(e) == [kind |-> "row", isNil |-> FALSE, hasRows |-> FALSE, err |-> e, rowsi |-> NilValue]

\* a nil *sql.Row / nil *sql.Rows pointer boxed into an interface{}
NilPtrCursor(k) == [kind |-> k, isNil |-> TRUE, hasRows |-> FALSE, err |-> "", rowsi |-> NilValue]

\* the *sql.Rows a non-nil *sql.Row points to
NestedRows(row) == RowsCursor(row.rowsi)

\* results of Inspect and of its helpers
Ret(h, e) == [handle |-> h, err |-> e, panic |-> FALSE]

\* a run-time panic (nil dereference) instead of a return
Panic == [handle |-> NilValue, err |-> "", panic |-> TRUE]

(***************************************************************************)
(* Inspect, version "offset" (src/inspect.go).                             *)
(***************************************************************************)
\* sqlRowsFromSqlRow_offset with the test `rows == nil` inverted
sqlRowsFromSqlRow_offset_inverted(row) ==
    IF row.isNil THEN [rows |-> NilPtrCursor("rows"), err |-> errArgNil]
    ELSE IF row.hasRows THEN [rows |-> NilPtrCursor("rows"), err |-> errRowRowsNil]
    ELSE [rows |-> NestedRows(row), err |-> ""]

\* src/inspect.go sqlRowsFromSqlRow: [rows, err], rows a Cursor of kind "rows"
sqlRowsFromSqlRow_offset(row) ==
    IF row.isNil THEN [rows |-> NilPtrCursor("rows"), err |-> errArgNil]
    ELSE IF ~row.hasRows THEN [rows |-> NilPtrCursor("rows"), err |-> errRowRowsNil]
    ELSE [rows |-> NestedRows(row), err |-> ""]

\* src/inspect.go driverRowsFromSqlRows; rowsiPtr is the sum of a non-nil
\* pointer and a field offset and is never 0
driverRowsFromSqlRows_offset(rows) ==
    IF rows.isNil THEN Ret(NilValue, errArgNil)
    ELSE Ret(rows.rowsi, "")

\* Inspect_offset without the test `sqlStruct == nil`
Inspect_offset_unchecked(sqlStruct) ==
    IF sqlStruct.kind = "row"
    THEN LET r == sqlRowsFromSqlRow_offset(sqlStruct)
         IN  IF r.err # "" THEN Ret(NilValue, r.err)
             ELSE driverRowsFromSqlRows_offset(r.rows)
    ELSE IF sqlStruct.kind = "rows" THEN driverRowsFromSqlRows_offset(sqlStruct)
    ELSE Ret(ErrorValue(errArgWrongType), "")

\* src/inspect.go Inspect
Inspect_offset(sqlStruct) ==
    IF sqlStruct.kind = "nil" THEN Ret(NilValue, errArgNil)
    ELSE IF sqlStruct.kind = "row"
         THEN LET r == sqlRowsFromSqlRow_offset(sqlStruct)
              IN  IF r.err # "" THEN Ret(NilValue, r.err)
                  ELSE driverRowsFromSqlRows_offset(r.rows)
    ELSE IF sqlStruct.kind = "rows" THEN driverRowsFromSqlRows_offset(sqlStruct)
    ELSE Ret(ErrorValue(errArgWrongType), "")

(***************************************************************************)
(* Inspect, version "reflect" (src/mysqlinternals/unsafe.go, second part). *)
(***************************************************************************)
\* the fields read through reflect are unexported fields of database/sql
UnexportedFields == {"rows", "err", "rowsi"}

\* reflect.Value.CanInterface(): false for a Value obtained through an
\* unexported struct field (it carries the read-only flag)
CanInterface(fieldName) == fieldName \notin UnexportedFields

\* src/mysqlinternals/unsafe.go sqlRowsFromSqlRow
sqlRowsFromSqlRow_reflect(row) ==
    IF row.isNil THEN [rows |-> NilPtrCursor("rows"), err |-> errArgNil]
    ELSE IF CanInterface("rows") /\ row.hasRows THEN [rows |-> NestedRows(row), err |-> ""]
    ELSE IF ~CanInterface("err") THEN [rows |-> NilPtrCursor("rows"), err |-> errRowErr]
    ELSE IF row.err # "" THEN [rows |-> NilPtrCursor("rows"), err |-> row.err]
    ELSE [rows |-> NilPtrCursor("rows"), err |-> errRowErrNil]

\* src/mysqlinternals/unsafe.go driverRowsFromSqlRows
driverRowsFromSqlRows_reflect(rows) ==
    IF rows.isNil THEN Ret(NilValue, errArgNil)
    ELSE IF ~CanInterface("rowsi") THEN Ret(NilValue, errRowsRowsi)
    ELSE IF rows.rowsi # NilValue THEN Ret(rows.rowsi, "")
    ELSE Ret(NilValue, errRowsRowsiNil)

\* src/mysqlinternals/unsafe.go Inspect
Inspect_reflect(sqlStruct) ==
    IF sqlStruct.kind = "nil" THEN Ret(NilValue, errArgNil)
    ELSE IF sqlStruct.kind = "row"
         THEN LET r == sqlRowsFromSqlRow_reflect(sqlStruct)
              IN  IF r.err # "" THEN Ret(NilValue, r.err)
                  ELSE driverRowsFromSqlRows_reflect(r.rows)
    ELSE IF sqlStruct.kind = "rows" THEN driverRowsFromSqlRows_reflect(sqlStruct)
    ELSE Ret(ErrorValue(errArgWrongType), "")

(***************************************************************************)
(* Inspect, version "inline" (src/unnamed/part_000).  It reads the fields  *)
(* at pointer + offset without a nil check of the pointer: a nil *sql.Row  *)
(* or *sql.Rows makes it read address 0 + offset, which panics.            *)
(***************************************************************************)
Inspect_inline(sqlStruct) ==
    IF sqlStruct.kind = "nil" THEN Ret(NilValue, errArgNil)
    ELSE IF sqlStruct.kind \notin {"row", "rows"} THEN Ret(ErrorValue(errArgWrongType), "")
    ELSE IF sqlStruct.isNil THEN Panic
    ELSE IF sqlStruct.kind = "row" /\ ~sqlStruct.hasRows THEN Ret(NilValue, errRowRowsNil)
    ELSE IF sqlStruct.rowsi = NilValue THEN Ret(NilValue, errRowsRowsiNil)
    ELSE Ret(sqlStruct.rowsi, "")

InspectVersions == {"offset", "reflect", "inline"}

\* Inspect as built from version v
Inspect(v, sqlStruct) ==
    CASE v = "offset" -> Inspect_offset(sqlStruct)
      [] v = "reflect" -> Inspect_reflect(sqlStruct)
      [] v = "inline" -> Inspect_inline(sqlStruct)

(***************************************************************************)
(* The concrete types of the handles a driver hands out (the dynamic type  *)
(* of sql.Rows.rowsi), by type id.  The driver's own mysqlConn is not the  *)
(* empty dummy of this repository.                                         *)
(***************************************************************************)
driverConn == StructOf("mysqlConn", 16, <<Fld("netConn", 0, PtrTo(tUint8)), Fld("sequence", 8, tUint8)>>)

\* driver release with a flat mysqlRows {mc, binary, columns, eof}
driverRowsFlat ==
    StructOf("mysqlRows", 48,
        <<Fld("mc", 0, PtrTo(driverConn)), Fld("binary", 8, tBool),
          Fld("columns", 16, SliceOf(mysqlFieldV1)), Fld("eof", 40, tBool)>>)

\* driver release with mysqlRows {mc, rs resultSet}
driverRowsNested ==
    StructOf("mysqlRows", 40, <<Fld("mc", 0, PtrTo(driverConn)), Fld("rs", 8, resultSet)>>)

\* driver release with mysqlRows {mc, columns}, wrapped by textRows / binaryRows
driverRowsColumns ==
    StructOf("mysqlRows", 32,
        <<Fld("mc", 0, PtrTo(driverConn)), Fld("columns", 8, SliceOf(mysqlFieldV1))>>)

\* a wrapper struct (textRows, binaryRows) embedding inner as field "mysqlRows"
Wrapper(n, inner) == StructOf(n, inner.size, <<Fld("mysqlRows", 0, inner)>>)

\* the test driver's rows of src/inspect.go: type testRows struct { text string }
testRows == StructOf("testRows", 16, <<Fld("text", 0, tString)>>)

\* type emptyRows struct{}, handed out by value
emptyRows == StructOf("emptyRows", 0, <<>>)

HandleTypes ==
    {"*mysqlRows", "*mysqlRows(rs)", "*textRows", "*binaryRows", "*textRows(columns)",
     "*testRows", "emptyRows"}

\* reflect.TypeOf(rows) for a handle of type id
TypeOf(id) ==
    CASE id = "*mysqlRows" -> PtrTo(driverRowsFlat)
      [] id = "*mysqlRows(rs)" -> PtrTo(driverRowsNested)
      [] id = "*textRows" -> PtrTo(Wrapper("textRows", driverRowsNested))
      [] id = "*binaryRows" -> PtrTo(Wrapper("binaryRows", driverRowsNested))
      [] id = "*textRows(columns)" -> PtrTo(Wrapper("textRows", driverRowsColumns))
      [] id = "*testRows" -> PtrTo(testRows)
      [] id = "emptyRows" -> emptyRows

\* rows.(driver.Rows): the dynamic type implements driver.Rows
IsDriverRows(v) == v.dyn \in HandleTypes

(***************************************************************************)
(* The layout probes.                                                      *)
(***************************************************************************)
errUnexpectedNil == "wrong argument, rows must not be nil"

errUnexpectedType == "wrong argument, must be *mysql.mysqlRows"

errUnexpectedStruct == "could not access cols []mysql.mysqlField"

errWrapperMismatch == "unexpected structure of textRows or binaryRows"

errRowsMismatch == "unexpected structure of mysqlRows"

errResultsetMismatch == "unexpected structure of resultSet"

errFieldMismatch == "unexpected structure of mysqlField"

rowtypeBinary == "binaryRows"

rowtypeText == "textRows"

rowtypeEmpty == "emptyRows"

\* src/mysql/unsafe.go initOffsets: [initialized, err]
mysql_initOffsets(rows) ==
    IF rows = NilValue THEN [initialized |-> FALSE, err |-> ""]
    ELSE LET argType == TypeOf(rows.dyn) IN
    IF argType.kind # "ptr" THEN [initialized |-> FALSE, err |-> errUnexpectedType]
    ELSE LET elemType == Elem(argType) IN
    IF elemType.kind # "struct" \/ elemType.name # "mysqlRows"
    THEN [initialized |-> FALSE, err |-> errUnexpectedType]
    ELSE IF canConvertUnsafe(elemType, mysqlRowsV1, 0) # "true"
    THEN [initialized |-> FALSE, err |-> errUnexpectedStruct]
    ELSE LET colsField == FieldByName(elemType, "columns") IN
    IF ~colsField.ok THEN [initialized |-> FALSE, err |-> errUnexpectedStruct]
    ELSE IF canConvertUnsafe(Elem(colsField.field.type), mysqlFieldV1, 0) # "true"
    THEN [initialized |-> FALSE, err |-> errUnexpectedStruct]
    ELSE [initialized |-> TRUE, err |-> ""]

\* src/mysqlinternals/unsafe.go initOffsets: the error, "" for nil
mysqlinternals_initOffsets(rows) ==
    IF rows = NilValue THEN errUnexpectedNil
    ELSE LET argType == TypeOf(rows.dyn) IN
    IF argType.kind # "ptr" THEN errUnexpectedType
    ELSE LET elemType == Elem(argType) IN
    IF elemType.kind # "struct" THEN errUnexpectedType
    ELSE IF elemType.name \notin {rowtypeBinary, rowtypeText} THEN errUnexpectedType
    ELSE LET embedded == FieldByName(elemType, "mysqlRows") IN
    IF ~embedded.ok THEN errWrapperMismatch
    ELSE LET rowsType == embedded.field.type IN
    IF canConvert(rowsType, mysqlRowsV2) # "true" THEN errRowsMismatch
    ELSE LET resultSetField == FieldByName(rowsType, "rs") IN
    IF ~resultSetField.ok THEN errRowsMismatch
    ELSE LET rsType == resultSetField.field.type IN
    IF canConvert(rsType, resultSet) # "true" THEN errRowsMismatch
    ELSE LET colsField == FieldByName(rsType, "columns") IN
    IF ~colsField.ok THEN errResultsetMismatch
    ELSE IF canConvert(Elem(colsField.field.type), mysqlFieldV2) # "true" THEN errFieldMismatch
    ELSE ""

(***************************************************************************)
(* The process: goroutines calling Columns / IsBinary of one of the two    *)
(* versions, sharing structsChecked, failedInit and initMutex.  The flags  *)
(* are read unguarded before the lock is taken; each such read is one step.*)
(***************************************************************************)
\* number of goroutines
NumProcs == 2

\* number of Columns / IsBinary calls made in one run
MaxCalls == 3

Procs == 1..NumProcs

Builds == {"mysql", "mysqlinternals"}

\* the package imported as github.com/arnehormann/sqlinternals is src/inspect.go
ColumnsInspect == "offset"

VARIABLES
    build,          \* which version the process is built from
    structsChecked, \* var structsChecked bool
    failedInit,     \* var failedInit bool
    initMutex,      \* var initMutex sync.Mutex: 0 when free, else the holder
    pc,             \* position of each goroutine: "idle" or inside its call
    call,           \* the call each goroutine is in: [op, arg, seq, sawFailed,
                    \* afterFirst]: function, rowOrRows, ordinal of the call
                    \* (3 for any later one), failedInit was true when it
                    \* started, it is the second call and started after the
                    \* first had returned
    last,           \* the call that returned last: the fields of call and
                    \* [ret, probed, cast]: what it returned, it invoked
                    \* initOffsets, it cast its handle to *mysqlRows
    calls,          \* calls started so far
    verified,       \* type ids for which initOffsets reported success
    first,          \* the first call of the process: [arg, op, ret, done]
    ver,            \* Inspect version under test
    tester,         \* the test driver: [numInputs, rows]
    cursor,         \* the value about to be handed to Inspect
    produced,       \* how cursor came about: [how, rows]
    unwrapped,      \* what Inspect returned for cursor: [handle, err, panic, valid]
    mirror,         \* a call of the structural matcher: [fn, from, to,
                    \* recurseStructs, result]; result is "" until it has run
    column          \* a call of a method of mysqlField: [v, fn, f, args, res]:
                    \* version, method, receiver, arguments and the result
                    \* [done, cats, type, decl, err]

colVars == <<build, structsChecked, failedInit, initMutex, pc, call, last, calls, verified,
             first>>

inspVars == <<ver, tester, cursor, produced, unwrapped>>

pureVars == <<mirror, column>>

vars == <<build, structsChecked, failedInit, initMutex, pc, call, last, calls, verified,
          first, ver, tester, cursor, produced, unwrapped, mirror, column>>

\* a handle of dynamic type id
Handle(id) == [dyn |-> id, ref |-> 1, str |-> ""]

\* the handle types met by a process of build b: those named as the build
\* expects, of the matching and of a differing release, one pointer type of
\* another name, and the struct value emptyRows
DriverTypes(b) ==
    IF b = "mysql" THEN {"*mysqlRows", "*mysqlRows(rs)", "*textRows", "emptyRows"}
    ELSE {"*textRows", "*binaryRows", "*textRows(columns)", "*mysqlRows", "emptyRows"}

\* the cursors the goroutines pass in: nil, a value that is no cursor, and
\* a *sql.Rows around a handle of each of these types
ColumnsCursors(b) ==
    {NilCursor, OtherCursor} \cup {RowsCursor(Handle(id)) : id \in DriverTypes(b)}

NoCall == [op |-> "", arg |-> NilCursor, seq |-> 0, sawFailed |-> FALSE, afterFirst |-> FALSE]

NoLast ==
    [op |-> "", arg |-> NilCursor, seq |-> 0, sawFailed |-> FALSE, afterFirst |-> FALSE,
     ret |-> "", probed |-> FALSE, cast |-> FALSE]

\* a panic ends the process
Crashed == last.ret = "panic"

\* the shape passes the probe of the build: only then does the cast read
\* memory of the layout it assumes
LayoutOK(b, id) ==
    IF b = "mysql" THEN mysql_initOffsets(Handle(id)).initialized
    ELSE mysqlinternals_initOffsets(Handle(id)) = ""

\* reflect.ValueOf(dRows).Pointer() / reflect.TypeOf(dRows).Elem() panic
\* unless dRows is a pointer
IsPointer(id) == TypeOf(id).kind = "ptr"

\* src/mysql/unsafe.go Columns, lines 215-220: the cast and the copy.  Reading
\* through a layout the memory does not have is undefined: it yields garbage
\* columns or faults.
mysql_ColumnsTail(id) ==
    IF ~IsPointer(id) THEN {[out |-> "panic", cast |-> FALSE]}
    ELSE IF LayoutOK("mysql", id) THEN {[out |-> "columns", cast |-> TRUE]}
    ELSE {[out |-> "columns", cast |-> TRUE], [out |-> "panic", cast |-> TRUE]}

\* src/mysqlinternals/unsafe.go Columns, lines 286-294
mysqlinternals_ColumnsTail(id) ==
    IF rowtypeEmpty = TypeOf(id).name THEN {[out |-> "nocolumns", cast |-> FALSE]}
    ELSE IF ~IsPointer(id) THEN {[out |-> "panic", cast |-> FALSE]}
    ELSE IF LayoutOK("mysqlinternals", id) THEN {[out |-> "columns", cast |-> TRUE]}
    ELSE {[out |-> "columns", cast |-> TRUE], [out |-> "panic", cast |-> TRUE]}

\* src/mysqlinternals/unsafe.go IsBinary, lines 272-273
IsBinaryTail(id) ==
    IF ~IsPointer(id) THEN {[out |-> "panic", cast |-> FALSE]}
    ELSE IF rowtypeBinary = Elem(TypeOf(id)).name THEN {[out |-> "binary", cast |-> FALSE]}
    ELSE {[out |-> "text", cast |-> FALSE]}

\* what the caller does with a usable dRows
CallerTail(b, o, id) ==
    IF b = "mysql" THEN mysql_ColumnsTail(id)
    ELSE IF o = "Columns" THEN mysqlinternals_ColumnsTail(id)
    ELSE IsBinaryTail(id)

\* return nil, errUnavailable / return false, errUnavailable
Unavailable == {[out |-> "unavailable", cast |-> FALSE]}

\* the handle Inspect yields for cursor c
dRowsOf(c) == Inspect(ColumnsInspect, c).handle

\* src/mysql/unsafe.go Columns lines 181-191 and src/mysqlinternals/unsafe.go
\* driverRows lines 228-235: Inspect failed or what it returned is no driver.Rows
NoDriverRows(c) ==
    LET r == Inspect(ColumnsInspect, c)
    IN  c.kind = "nil" \/ r.err # "" \/ r.handle = NilValue \/ ~IsDriverRows(r.handle)

\* mysql_initSection with `structsChecked = initialized` assigned after every
\* probe instead of being set on success only
mysql_initSection_assign(checked, failed, dRows) ==
    LET init == mysql_initOffsets(dRows)
    IN  IF failed
        THEN [probe |-> FALSE, structsChecked |-> checked, failedInit |-> failed,
              uninitialized |-> TRUE]
        ELSE [probe |-> TRUE, structsChecked |-> init.initialized,
              failedInit |-> (~init.initialized /\ init.err # errUnexpectedType),
              uninitialized |-> ~init.initialized]

\* the section with failedInit set on every failure of the probe
mysql_initSection_poison(checked, failed, dRows) ==
    LET init == mysql_initOffsets(dRows)
    IN  IF failed
        THEN [probe |-> FALSE, structsChecked |-> checked, failedInit |-> failed,
              uninitialized |-> TRUE]
        ELSE IF init.initialized
        THEN [probe |-> TRUE, structsChecked |-> TRUE, failedInit |-> failed,
              uninitialized |-> FALSE]
        ELSE [probe |-> TRUE, structsChecked |-> checked, failedInit |-> TRUE,
              uninitialized |-> TRUE]

\* src/mysql/unsafe.go Columns lines 199-212, the section under initMutex,
\* from the flags as read under the lock:
\* [probe, structsChecked, failedInit, uninitialized]
mysql_initSection(checked, failed, dRows) ==
    LET init == mysql_initOffsets(dRows)
    IN  IF failed
        THEN [probe |-> FALSE, structsChecked |-> checked, failedInit |-> failed,
              uninitialized |-> TRUE]
        ELSE IF init.initialized
        THEN [probe |-> TRUE, structsChecked |-> TRUE, failedInit |-> failed,
              uninitialized |-> FALSE]
        ELSE IF init.err # errUnexpectedType
        THEN [probe |-> TRUE, structsChecked |-> checked, failedInit |-> TRUE,
              uninitialized |-> TRUE]
        ELSE [probe |-> TRUE, structsChecked |-> checked, failedInit |-> failed,
              uninitialized |-> TRUE]

\* driverRowsRefuses without the test of failedInit
driverRowsRefuses_nilOnly(c, failed) == c.kind = "nil"

\* src/mysqlinternals/unsafe.go driverRows line 225: return nil, false at once
driverRowsRefuses(c, failed) == c.kind = "nil" \/ failed

\* the section with failedInit left alone on a structural mismatch
driverRows_initSection_silent(checked, failed, dRows) ==
    LET err == mysqlinternals_initOffsets(dRows)
    IN  IF failed
        THEN [probe |-> FALSE, structsChecked |-> checked, failedInit |-> failed, ok |-> TRUE]
        ELSE IF err = ""
        THEN [probe |-> TRUE, structsChecked |-> TRUE, failedInit |-> failed, ok |-> TRUE]
        ELSE [probe |-> TRUE, structsChecked |-> checked, failedInit |-> failed, ok |-> FALSE]

\* src/mysqlinternals/unsafe.go driverRows lines 237-256, the section under
\* initMutex, from the flags as read under the lock:
\* [probe, structsChecked, failedInit, ok]
driverRows_initSection(checked, failed, dRows) ==
    LET err == mysqlinternals_initOffsets(dRows)
    IN  IF failed
        THEN [probe |-> FALSE, structsChecked |-> checked, failedInit |-> failed, ok |-> TRUE]
        ELSE IF err = ""
        THEN [probe |-> TRUE, structsChecked |-> TRUE, failedInit |-> failed, ok |-> TRUE]
        ELSE IF err \in {errUnexpectedType, errUnexpectedNil}
        THEN [probe |-> TRUE, structsChecked |-> checked, failedInit |-> failed, ok |-> FALSE]
        ELSE [probe |-> TRUE, structsChecked |-> checked, failedInit |-> TRUE, ok |-> FALSE]

\* the first call of the process as it starts
FirstCall(k) == [arg |-> k.arg, op |-> k.op, ret |-> "", done |-> FALSE]

\* calls are told apart as the first, the second and the later ones
Ordinal(n) == IF n < 3 THEN n ELSE 3

\* the call k a goroutine starts now on cursor c
NewCall(c, o) ==
    [op |-> o, arg |-> c, seq |-> Ordinal(calls + 1), sawFailed |-> failedInit,
     afterFirst |-> (calls = 1 /\ first.done)]

\* a call may start: the run has calls left and p is the free goroutine the
\* call is scheduled on (goroutines are alike: the first free one)
CanStart(p) ==
    /\ ~Crashed
    /\ pc[p] = "idle"
    /\ \A q \in Procs : q < p => pc[q] # "idle"
    /\ calls < MaxCalls

\* goroutine p returns from call k with one of the outcomes outs, having
\* invoked initOffsets or not
Return(p, k, didProbe, outs) ==
    \E o \in outs :
        /\ last' = [op |-> k.op, arg |-> k.arg, seq |-> k.seq, sawFailed |-> k.sawFailed,
                    afterFirst |-> k.afterFirst, ret |-> o.out, probed |-> didProbe,
                    cast |-> o.cast]
        /\ pc' = [pc EXCEPT ![p] = "idle"]
        /\ call' = [call EXCEPT ![p] = NoCall]
        /\ calls' = IF pc[p] = "idle" THEN calls + 1 ELSE calls
        /\ first' = IF k.seq = 1 THEN [FirstCall(k) EXCEPT !.ret = o.out, !.done = TRUE]
                    ELSE first

\* goroutine p goes on with call k at position l
Goto(p, k, l) ==
    /\ pc' = [pc EXCEPT ![p] = l]
    /\ call' = [call EXCEPT ![p] = k]
    /\ calls' = IF pc[p] = "idle" THEN calls + 1 ELSE calls
    /\ first' = IF k.seq = 1 THEN FirstCall(k) ELSE first
    /\ UNCHANGED last

\* what a step inside a call leaves alone
InCall(p, l) ==
    /\ ~Crashed
    /\ pc[p] = l
    /\ UNCHANGED build
    /\ UNCHANGED inspVars
    /\ UNCHANGED pureVars

(***************************************************************************)
(* src/mysql/unsafe.go Columns                                             *)
(***************************************************************************)
\* Columns(c) is called; lines 181-192 (and 215-220 when structsChecked is
\* read as true)
mysql_ColumnsEnter(p, c) ==
    /\ build = "mysql"
    /\ CanStart(p)
    /\ UNCHANGED <<build, structsChecked, failedInit, initMutex, verified>>
    /\ UNCHANGED inspVars
    /\ UNCHANGED pureVars
    /\ LET k == NewCall(c, "Columns")
       IN  IF NoDriverRows(c) THEN Return(p, k, FALSE, Unavailable)
           ELSE IF structsChecked
                THEN Return(p, k, FALSE, mysql_ColumnsTail(dRowsOf(c).dyn))
           ELSE Goto(p, k, "wait")

\* line 198: initMutex.Lock()
mysql_ColumnsLock(p) ==
    /\ build = "mysql"
    /\ InCall(p, "wait")
    /\ initMutex = 0
    /\ initMutex' = p
    /\ UNCHANGED <<structsChecked, failedInit, verified>>
    /\ Goto(p, call[p], "locked")

\* the section left with initMutex still held when the probe has failed
mysql_ColumnsInit_keepsLock(p) ==
    /\ build = "mysql"
    /\ InCall(p, "locked")
    /\ LET dRows == dRowsOf(call[p].arg)
           s == mysql_initSection(structsChecked, failedInit, dRows)
       IN  /\ structsChecked' = s.structsChecked
           /\ failedInit' = s.failedInit
           /\ verified' = IF s.probe /\ mysql_initOffsets(dRows).initialized
                          THEN verified \cup {dRows.dyn} ELSE verified
           /\ initMutex' = IF s.uninitialized THEN p ELSE 0
           /\ IF s.uninitialized THEN Return(p, call[p], s.probe, Unavailable)
              ELSE Return(p, call[p], s.probe, mysql_ColumnsTail(dRows.dyn))

\* lines 199-220: the section under the lock, Unlock, and the return
mysql_ColumnsInit(p) ==
    /\ build = "mysql"
    /\ InCall(p, "locked")
    /\ LET dRows == dRowsOf(call[p].arg)
           s == mysql_initSection(structsChecked, failedInit, dRows)
       IN  /\ structsChecked' = s.structsChecked
           /\ failedInit' = s.failedInit
           /\ verified' = IF s.probe /\ mysql_initOffsets(dRows).initialized
                          THEN verified \cup {dRows.dyn} ELSE verified
           /\ initMutex' = 0
           /\ IF s.uninitialized THEN Return(p, call[p], s.probe, Unavailable)
              ELSE Return(p, call[p], s.probe, mysql_ColumnsTail(dRows.dyn))

(***************************************************************************)
(* src/mysqlinternals/unsafe.go driverRows, called by Columns and IsBinary *)
(***************************************************************************)
\* Columns(c) or IsBinary(c) is called; line 225: the nil check and the
\* unguarded read of failedInit
driverRowsEnter(p, c, o) ==
    /\ build = "mysqlinternals"
    /\ CanStart(p)
    /\ UNCHANGED <<build, structsChecked, failedInit, initMutex, verified>>
    /\ UNCHANGED inspVars
    /\ UNCHANGED pureVars
    /\ LET k == NewCall(c, o)
       IN  IF driverRowsRefuses(c, failedInit) THEN Return(p, k, FALSE, Unavailable)
           ELSE Goto(p, k, "entered")

\* lines 228-236: Inspect, the type assertion and the unguarded read of
\* structsChecked (and line 256 with the caller's tail when it is true)
driverRowsInspect(p) ==
    /\ build = "mysqlinternals"
    /\ InCall(p, "entered")
    /\ UNCHANGED <<structsChecked, failedInit, initMutex, verified>>
    /\ LET k == call[p]
       IN  IF NoDriverRows(k.arg) THEN Return(p, k, FALSE, Unavailable)
           ELSE IF structsChecked
                THEN Return(p, k, FALSE, CallerTail(build, k.op, dRowsOf(k.arg).dyn))
           ELSE Goto(p, k, "wait")

\* line 238: initMutex.Lock()
driverRowsLock(p) ==
    /\ build = "mysqlinternals"
    /\ InCall(p, "wait")
    /\ initMutex = 0
    /\ initMutex' = p
    /\ UNCHANGED <<structsChecked, failedInit, verified>>
    /\ Goto(p, call[p], "locked")

\* lines 239-256: the section under the lock, the deferred Unlock at the
\* return, and the caller's tail
driverRowsInit(p) ==
    /\ build = "mysqlinternals"
    /\ InCall(p, "locked")
    /\ LET k == call[p]
           dRows == dRowsOf(k.arg)
           s == driverRows_initSection(structsChecked, failedInit, dRows)
       IN  /\ structsChecked' = s.structsChecked
           /\ failedInit' = s.failedInit
           /\ verified' = IF s.probe /\ mysqlinternals_initOffsets(dRows) = ""
                          THEN verified \cup {dRows.dyn} ELSE verified
           /\ initMutex' = 0
           /\ IF ~s.ok THEN Return(p, k, s.probe, Unavailable)
              ELSE Return(p, k, s.probe, CallerTail(build, k.op, dRows.dyn))

\* the state after package initialisation
ColInit ==
    /\ structsChecked = FALSE
    /\ failedInit = FALSE
    /\ initMutex = 0
    /\ pc = [p \in Procs |-> "idle"]
    /\ call = [p \in Procs |-> NoCall]
    /\ last = NoLast
    /\ calls = 0
    /\ verified = {}
    /\ first = [arg |-> NilCursor, op |-> "", ret |-> "", done |-> FALSE]

\* the test driver before any test has run: tester = &omnithing{}
InspInit ==
    /\ tester = [numInputs |-> 0, rows |-> [dyn |-> "*testRows", ref |-> 0, str |-> ""]]
    /\ cursor = NilCursor
    /\ produced = [how |-> "", rows |-> NilValue]
    /\ unwrapped = [handle |-> NilValue, err |-> "", panic |-> FALSE, valid |-> FALSE]

\* the result of a method of mysqlField that has not run
NoResult_column ==
    [done |-> FALSE, cats |-> {}, type |-> "", decl |-> "", err |-> "",
     name |-> "", ptype |-> 0]

\* no call of the structural matcher is under way
NoMirrorCall ==
    [fn |-> "", from |-> StructOf("", 0, <<>>), to |-> StructOf("", 0, <<>>),
     recurseStructs |-> 0, result |-> ""]

\* no call of a method of mysqlField is under way
NoColumnCall ==
    [v |-> "", fn |-> "", f |-> [fieldType |-> 0, flags |-> 0, decimals |-> 0],
     args |-> <<>>, forceNullable |-> FALSE, res |-> NoResult_column]

PureInit ==
    /\ mirror = NoMirrorCall
    /\ column = NoColumnCall

Init ==
    /\ build \in Builds
    /\ ver = ColumnsInspect
    /\ ColInit
    /\ InspInit
    /\ PureInit

Next ==
    \/ \E p \in Procs, c \in ColumnsCursors(build) : mysql_ColumnsEnter(p, c)
    \/ \E p \in Procs : mysql_ColumnsLock(p)
    \/ \E p \in Procs : mysql_ColumnsInit(p)
    \/ \E p \in Procs, c \in ColumnsCursors(build), o \in {"Columns", "IsBinary"} :
            driverRowsEnter(p, c, o)
    \/ \E p \in Procs : driverRowsInspect(p)
    \/ \E p \in Procs : driverRowsLock(p)
    \/ \E p \in Procs : driverRowsInit(p)

Spec == Init /\ [][Next]_vars

(***************************************************************************)
(* Properties of the process-wide cache (specification Spec).              *)
(***************************************************************************)
\* how the probe of build b classifies a handle of type id: "ok",
\* "wrongtype" (nil, no pointer to a struct, unknown name) or "mismatch"
\* (known name, structure differs)
ProbeVerdict(b, id) ==
    LET e == IF b = "mysql" THEN mysql_initOffsets(Handle(id)).err
             ELSE mysqlinternals_initOffsets(Handle(id))
    IN  IF LayoutOK(b, id) THEN "ok"
        ELSE IF e \in {errUnexpectedType, errUnexpectedNil} THEN "wrongtype"
        ELSE "mismatch"

\* the verdict for the handle of the first call of the process, "none" when
\* there was no call or its cursor yields no handle
FirstVerdict ==
    IF first.op = "" \/ NoDriverRows(first.arg) THEN "none"
    ELSE ProbeVerdict(build, dRowsOf(first.arg).dyn)

\* the call that returned last is the second call of the process, a Columns
\* call on another cursor that started after the first call, also a Columns
\* call, had returned
SecondAfterFirst ==
    /\ last.seq = 2
    /\ last.afterFirst
    /\ first.op = "Columns"
    /\ last.op = "Columns"
    /\ last.arg # first.arg

\* the positions of a goroutine
Positions == {"idle", "entered", "wait", "locked"}

\* goroutine p inside a call can take its next step: it is not blocked in
\* initMutex.Lock() and the process has not died of a panic
Runnable(p) ==
    /\ ~Crashed
    /\ pc[p] \in {"entered", "locked"} \/ (pc[p] = "wait" /\ initMutex = 0)

\* goroutine p inside a call takes its next step (a step of
\* mysql_ColumnsLock, mysql_ColumnsInit, driverRowsInspect, driverRowsLock or
\* driverRowsInit, the only steps that move p from where it is)
Runs(p) ==
    /\ Runnable(p)
    /\ pc' \in [Procs -> Positions]
    /\ pc'[p] # pc[p]

\* Spec with the scheduling of Go: a goroutine that can run is run, and
\* sync.Mutex hands the lock to a goroutine that waits for it
FairSpec == Spec /\ \A p \in Procs : WF_pc(Runs(p))

\* C1: a handle is cast to *mysqlRows only if initOffsets has reported
\* success for a handle of that same concrete type.
C1_CastOnlyProbedShape == last.cast => dRowsOf(last.arg).dyn \in verified

\* C2: when the handle of the first Columns call matches no known layout
\* (the probe fails for it in any way), that call returns Unavailable and the
\* second Columns call, on another cursor, returns Unavailable without
\* invoking initOffsets.
C2_UnknownLayoutShortCircuits ==
    (SecondAfterFirst /\ FirstVerdict \in {"wrongtype", "mismatch"}) =>
        /\ first.ret = "unavailable"
        /\ ~last.probed
        /\ last.ret = "unavailable"

\* C2 as amended: when the handle of the first Columns call has a known
\* layout name but fails the structural match, that call returns Unavailable
\* and the second Columns call, on another cursor, returns Unavailable
\* without invoking initOffsets.
C2_MismatchShortCircuits ==
    (SecondAfterFirst /\ FirstVerdict = "mismatch") =>
        /\ first.ret = "unavailable"
        /\ ~last.probed
        /\ last.ret = "unavailable"

\* the second call has returned, it was made with a handle the probe would
\* accept, after a first call whose handle failed the structural match
C2_Witness ==
    /\ SecondAfterFirst
    /\ FirstVerdict = "mismatch"
    /\ ~NoDriverRows(last.arg)
    /\ LayoutOK(build, dRowsOf(last.arg).dyn)

\* C3: a Columns or IsBinary call that starts when failedInit is already true
\* returns Unavailable and does not invoke initOffsets.
C3_FailedShortCircuits == last.sawFailed => (~last.probed /\ last.ret = "unavailable")

\* C4: structsChecked and failedInit are never both true.
C4_SingleVerdict == ~(structsChecked /\ failedInit)

\* C5: no step sets structsChecked or failedInit back to false.
C5_VerdictNeverReset ==
    [][(structsChecked => structsChecked') /\ (failedInit => failedInit')]_vars

\* a call on a cursor with a handle has started and returned after
\* failedInit was set, and failedInit is still set
C5_Witness == failedInit /\ last.sawFailed /\ ~NoDriverRows(last.arg)

(***************************************************************************)
(* Inspect under test: the test driver of src/inspect.go (omnithing,       *)
(* testRows, runRowsTest) produces cursors through database/sql, callers   *)
(* may also hand in any other value, and Inspect is applied to the cursor. *)
(***************************************************************************)
\* number of distinct testRows objects
MaxRows == 2

\* the values of tester.rows: a nil *testRows or one of the testRows objects
TestRowsRefs == {[dyn |-> "*testRows", ref |-> n, str |-> ""] : n \in 0..MaxRows}

\* the error a failed query leaves in sql.Row.err
QueryErr == "sql: no rows in result set"

\* the values a caller can build by hand and pass to Inspect
MadeCursors ==
    {NilCursor, OtherCursor, NilPtrCursor("row"), NilPtrCursor("rows"), RowsCursor(NilValue),
     RowCursor(NilValue), RowErrCursor(QueryErr), RowErrCursor("")}
        \cup {RowsCursor(h) : h \in TestRowsRefs}
        \cup {RowCursor(h) : h \in TestRowsRefs}

NoResult == [handle |-> NilValue, err |-> "", panic |-> FALSE, valid |-> FALSE]

\* src/inspect.go omnithing.setState
setState(inputs, rows) ==
    /\ tester' = [numInputs |-> inputs, rows |-> rows]
    /\ UNCHANGED <<ver, cursor, produced, unwrapped>>
    /\ UNCHANGED colVars
    /\ UNCHANGED pureVars

\* src/inspect.go omnithing.Query, reached through conn.Query as in
\* TestRowsWithoutArgs / TestRowsWithArgs: database/sql stores the driver's
\* rows in sql.Rows.rowsi
Query ==
    /\ cursor' = RowsCursor(tester.rows)
    /\ produced' = [how |-> "Query", rows |-> tester.rows]
    /\ unwrapped' = NoResult
    /\ UNCHANGED <<ver, tester>>
    /\ UNCHANGED colVars
    /\ UNCHANGED pureVars

\* src/inspect.go omnithing.Query, reached through conn.QueryRow as in
\* TestRowWithoutArgs / TestRowWithArgs: database/sql stores the sql.Rows in
\* sql.Row.rows
QueryRow ==
    /\ cursor' = RowCursor(tester.rows)
    /\ produced' = [how |-> "QueryRow", rows |-> tester.rows]
    /\ unwrapped' = NoResult
    /\ UNCHANGED <<ver, tester>>
    /\ UNCHANGED colVars
    /\ UNCHANGED pureVars

\* a caller builds the argument itself
MakeCursor(c) ==
    /\ cursor' = c
    /\ produced' = [how |-> "made", rows |-> NilValue]
    /\ unwrapped' = NoResult
    /\ UNCHANGED <<ver, tester>>
    /\ UNCHANGED colVars
    /\ UNCHANGED pureVars

\* unwrapped, err := Inspect(rowOrRows)
InspectCall ==
    /\ ~unwrapped.valid
    /\ produced.how # ""
    /\ LET r == Inspect(ver, cursor)
       IN  unwrapped' = [handle |-> r.handle, err |-> r.err, panic |-> r.panic, valid |-> TRUE]
    /\ UNCHANGED <<ver, tester, cursor, produced>>
    /\ UNCHANGED colVars
    /\ UNCHANGED pureVars

InspectInit ==
    /\ build = "mysql"
    /\ ver \in InspectVersions
    /\ ColInit
    /\ InspInit
    /\ PureInit

InspectNext ==
    \/ \E n \in {0, 1}, r \in TestRowsRefs : setState(n, r)
    \/ Query
    \/ QueryRow
    \/ \E c \in MadeCursors : MakeCursor(c)
    \/ InspectCall

InspectSpec == InspectInit /\ [][InspectNext]_vars

(***************************************************************************)
(* Properties of Inspect (specification InspectSpec).                      *)
(***************************************************************************)
\* Inspect has been applied to cursor and has returned or panicked
Inspected == unwrapped.valid

\* the RowStateInconsistent error of either version
RowStateInconsistent == {errRowRowsNil, errRowErrNil}

\* C6: for a value that is neither a *sql.Row nor a *sql.Rows, Inspect
\* returns the error errArgWrongType and a nil handle.
C6_WrongTypeIsError ==
    (Inspected /\ cursor.kind = "other") =>
        /\ ~unwrapped.panic
        /\ unwrapped.err = errArgWrongType
        /\ unwrapped.handle = NilValue

\* C7: for a non-nil *sql.Row, Inspect continues as for the nested *sql.Rows
\* when rows is present, returns the stored error unchanged when rows is
\* absent and err is present, and returns RowStateInconsistent when both are
\* absent (stated for the versions that read the fields by offset,
\* src/inspect.go and src/unnamed/part_000).
C7_RowCases ==
    (Inspected /\ cursor.kind = "row" /\ ~cursor.isNil /\ ver \in {"offset", "inline"}) =>
        LET r == [handle |-> unwrapped.handle, err |-> unwrapped.err, panic |-> unwrapped.panic]
        IN  IF cursor.hasRows THEN r = Inspect(ver, NestedRows(cursor))
            ELSE IF cursor.err # "" THEN r = Ret(NilValue, cursor.err)
            ELSE ~r.panic /\ r.handle = NilValue /\ r.err \in RowStateInconsistent

\* C8: for a non-nil *sql.Rows, Inspect returns (nil, an Unavailable error)
\* when rowsi is nil and (rowsi, nil) when it is not; it never returns
\* (nil, nil) (stated for Inspect of src/inspect.go).
C8_RowsCases ==
    ver = "offset" =>
        /\ (Inspected /\ cursor.kind = "rows" /\ ~cursor.isNil) =>
                /\ ~unwrapped.panic
                /\ IF cursor.rowsi = NilValue
                   THEN unwrapped.handle = NilValue /\ unwrapped.err # ""
                   ELSE unwrapped.handle = cursor.rowsi /\ unwrapped.err = ""
        /\ (Inspected /\ ~unwrapped.panic) =>
                ~(unwrapped.handle = NilValue /\ unwrapped.err = "")

\* C9: Inspect(nil) returns a nil handle and errArgNil and does not panic.
C9_NilArgument ==
    (Inspected /\ cursor.kind = "nil") =>
        /\ ~unwrapped.panic
        /\ unwrapped.handle = NilValue
        /\ unwrapped.err = errArgNil

\* Inspect has been applied to nil
C9_Witness == Inspected /\ cursor.kind = "nil"

\* C10: for a cursor that conn.Query or conn.QueryRow produced from the
\* driver's rows, Inspect of src/inspect.go (and its inlined form) returns
\* that very rows object and a nil error, with or without query arguments.
C10_SameHandle ==
    (Inspected /\ produced.how \in {"Query", "QueryRow"} /\ ver \in {"offset", "inline"}) =>
        /\ ~unwrapped.panic
        /\ unwrapped.err = ""
        /\ unwrapped.handle = produced.rows

\* Inspect of src/inspect.go has unwrapped a *sql.Row from QueryRow with one
\* argument, after the driver's rows object was exchanged
C10_Witness ==
    /\ Inspected
    /\ ver = "offset"
    /\ produced.how = "QueryRow"
    /\ tester.numInputs = 1
    /\ produced.rows.ref = MaxRows
    /\ tester.rows # produced.rows

(***************************************************************************)
(* The structural matcher under test (specification MirrorSpec): one call  *)
(* of CanConvertUnsafe or canConvert on a pair of struct types.            *)
(***************************************************************************)
\* largest recursion budget handed to CanConvertUnsafe
MaxRecurse == 2

\* [n]t
ArrayOf(t, n) == [kind |-> "array", name |-> "", size |-> n * t.size, elem |-> <<t>>, fields |-> <<>>]

\* an interface type of name n
InterfaceOf(n) == [kind |-> "interface", name |-> n, size |-> 16, elem |-> <<>>, fields |-> <<>>]

tError == InterfaceOf("error")

\* type inner struct{ a uint8 }, and a type of the same name declared
\* elsewhere as struct{ a uint16 }
inner == StructOf("inner", 1, <<Fld("a", 0, tUint8)>>)

innerElsewhere == StructOf("inner", 2, <<Fld("a", 0, tUint16)>>)

\* the struct types of TestMirror: struct{}, struct{ a uint8 },
\* struct{ b uint8 }, struct{ a *uint8 }
TestMirrorTypes ==
    { StructOf("", 0, <<>>),
      StructOf("", 1, <<Fld("a", 0, tUint8)>>),
      StructOf("", 1, <<Fld("b", 0, tUint8)>>),
      StructOf("", 8, <<Fld("a", 0, PtrTo(tUint8))>>) }

\* further struct types handed to the matcher:
\*   struct{ a uint8; b uint8 }       struct{ a [1]uint8; b uint8 }
\*   struct{ a [2]uint8; b uint8 }    struct{ a [1]uint8 }    struct{ a [2]uint8 }
\*   struct{ e error; a uint8 }       struct{ e error; b uint8 }
\*   struct{ s struct{} }             struct{ s inner }  (either declaration)
\*   struct{ a [1]uint8; b uint16 }   struct{ a [2]uint8; b uint16 }
MirrorTypes ==
    TestMirrorTypes \cup
    { StructOf("", 2, <<Fld("a", 0, tUint8), Fld("b", 1, tUint8)>>),
      StructOf("", 2, <<Fld("a", 0, ArrayOf(tUint8, 1)), Fld("b", 1, tUint8)>>),
      StructOf("", 3, <<Fld("a", 0, ArrayOf(tUint8, 2)), Fld("b", 2, tUint8)>>),
      StructOf("", 1, <<Fld("a", 0, ArrayOf(tUint8, 1))>>),
      StructOf("", 2, <<Fld("a", 0, ArrayOf(tUint8, 2))>>),
      StructOf("", 24, <<Fld("e", 0, tError), Fld("a", 16, tUint8)>>),
      StructOf("", 24, <<Fld("e", 0, tError), Fld("b", 16, tUint8)>>),
      StructOf("", 0, <<Fld("s", 0, StructOf("", 0, <<>>))>>),
      StructOf("", 1, <<Fld("s", 0, inner)>>),
      StructOf("", 2, <<Fld("s", 0, innerElsewhere)>>),
      StructOf("", 4, <<Fld("a", 0, ArrayOf(tUint8, 1)), Fld("b", 2, tUint16)>>),
      StructOf("", 4, <<Fld("a", 0, ArrayOf(tUint8, 2)), Fld("b", 2, tUint16)>>) }

\* src/mirror/mirror.go CanConvertUnsafe: line for line the canConvertUnsafe
\* of src/mysql/unsafe.go
CanConvertUnsafe(from, to, recurseStructs) == canConvertUnsafe(from, to, recurseStructs)

\* CanConvertUnsafe(m.from, m.to, m.recurseStructs) runs; "hang" when the
\* call does not return
CanConvertUnsafeCall ==
    /\ mirror.fn = "CanConvertUnsafe"
    /\ mirror.result = ""
    /\ mirror' = [mirror EXCEPT
                    !.result = CanConvertUnsafe(mirror.from, mirror.to, mirror.recurseStructs)]
    /\ UNCHANGED column
    /\ UNCHANGED colVars
    /\ UNCHANGED inspVars

\* canConvert(m.from, m.to) of src/mysqlinternals/unsafe.go runs
canConvertCall ==
    /\ mirror.fn = "canConvert"
    /\ mirror.result = ""
    /\ mirror' = [mirror EXCEPT !.result = canConvert(mirror.from, mirror.to)]
    /\ UNCHANGED column
    /\ UNCHANGED colVars
    /\ UNCHANGED inspVars

MirrorInit ==
    /\ build = "mysql"
    /\ ver = ColumnsInspect
    /\ ColInit
    /\ InspInit
    /\ column = NoColumnCall
    /\ \E f \in MirrorTypes, t \in MirrorTypes, n \in 0..MaxRecurse,
          fn \in {"CanConvertUnsafe", "canConvert"} :
            /\ fn = "canConvert" => n = 0
            /\ mirror = [fn |-> fn, from |-> f, to |-> t, recurseStructs |-> n, result |-> ""]

MirrorNext ==
    \/ CanConvertUnsafeCall
    \/ canConvertCall

MirrorSpec == MirrorInit /\ [][MirrorNext]_vars

RECURSIVE KindsDiffer(_, _)
\* the kinds of a and b differ, or both are containers and the kinds of
\* their elements differ at some level
KindsDiffer(a, b) ==
    IF a.kind # b.kind THEN TRUE
    ELSE IF a.kind \in ContainerKinds THEN KindsDiffer(Elem(a), Elem(b))
    ELSE FALSE

\* some field position of a and b has a different name, offset or element kind
FieldDiffers(a, b) ==
    \E i \in 1..NumField(a) :
        /\ i <= NumField(b)
        /\ \/ a.fields[i].name # b.fields[i].name
           \/ a.fields[i].offset # b.fields[i].offset
           \/ KindsDiffer(a.fields[i].type, b.fields[i].type)

\* C11: CanConvertUnsafe(T, T, n) returns true for every struct type T and
\* every budget n >= 0.
C11_Reflexive ==
    (mirror.fn = "CanConvertUnsafe" /\ mirror.result # "" /\ mirror.from = mirror.to) =>
        mirror.result = "true"

\* C12: the matcher returns false whenever some field position of the two
\* struct types differs in name, in offset or in element kind, whatever the
\* budget.
C12_FieldMismatchIsFalse ==
    (mirror.result # "" /\ FieldDiffers(mirror.from, mirror.to)) => mirror.result = "false"

\* C13: CanConvertUnsafe(a, b, n) and CanConvertUnsafe(b, a, n) agree for all
\* struct types a, b and every budget n.
C13_Symmetric ==
    (mirror.fn = "CanConvertUnsafe" /\ mirror.result # "") =>
        mirror.result = CanConvertUnsafe(mirror.to, mirror.from, mirror.recurseStructs)

\* CanConvertUnsafe has returned true for two different types
C13_Witness ==
    /\ mirror.fn = "CanConvertUnsafe"
    /\ mirror.result = "true"
    /\ mirror.from # mirror.to

(***************************************************************************)
(* Column metadata: mysqlField and its methods.  The repository holds two  *)
(* versions of them:                                                       *)
(*   "args"     src/mysql/mysql.go (src/unnamed/part_001 has the same      *)
(*              bodies): MysqlDeclaration validates args in argsToParam    *)
(*   "decimals" src/mysql/mysql_test.go lines 83-616: mysqlField carries   *)
(*              decimals, MysqlDeclaration formats args as they come       *)
(* A field is [fieldType, flags, decimals]; an argument of                 *)
(* MysqlDeclaration is [isInt, int, str]: an int or a string.              *)
(***************************************************************************)
fieldTypeDecimal == 0

fieldTypeTiny == 1

fieldTypeShort == 2

fieldTypeLong == 3

fieldTypeFloat == 4

fieldTypeDouble == 5

fieldTypeNULL == 6

fieldTypeTimestamp == 7

fieldTypeLongLong == 8

fieldTypeInt24 == 9

fieldTypeDate == 10

fieldTypeTime == 11

fieldTypeDateTime == 12

fieldTypeYear == 13

fieldTypeNewDate == 14

fieldTypeVarChar == 15

fieldTypeBit == 16

fieldTypeNewDecimal == 246
\* declared by the type codes of package mysqlinternals only
fieldTypeJSON == 245

fieldTypeEnum == 247

fieldTypeSet == 248

fieldTypeTinyBLOB == 249

fieldTypeMediumBLOB == 250

fieldTypeLongBLOB == 251

fieldTypeBLOB == 252

fieldTypeVarString == 253

fieldTypeString == 254

fieldTypeGeometry == 255

flagNotNULL == 1

flagUnsigned == 32

flagZeroFill == 64

flagBinary == 128

\* flags&bit == bit, for a single bit
HasFlag(flags, bit) == (flags \div bit) % 2 = 1

IsInteger(f) ==
    f.fieldType \in {fieldTypeTiny, fieldTypeShort, fieldTypeInt24, fieldTypeLong,
                     fieldTypeLongLong}

IsFloatingPoint(f) == f.fieldType \in {fieldTypeFloat, fieldTypeDouble}

IsDecimal(f) == f.fieldType \in {fieldTypeDecimal, fieldTypeNewDecimal}

IsNumber(f) == IsInteger(f) \/ IsFloatingPoint(f) \/ IsDecimal(f)

IsBlob(f) ==
    f.fieldType \in {fieldTypeTinyBLOB, fieldTypeMediumBLOB, fieldTypeBLOB, fieldTypeLongBLOB}

\* IsText with BLOB counted as text
IsText_withBlob(f) ==
    f.fieldType \in {fieldTypeVarChar, fieldTypeVarString, fieldTypeString, fieldTypeBLOB}

IsText(f) == f.fieldType \in {fieldTypeVarChar, fieldTypeVarString, fieldTypeString}

IsTime(f) ==
    f.fieldType \in {fieldTypeYear, fieldTypeDate, fieldTypeNewDate, fieldTypeTime,
                     fieldTypeTimestamp, fieldTypeDateTime}

IsNotNull(f) == HasFlag(f.flags, flagNotNULL)

IsUnsigned(f) == HasFlag(f.flags, flagUnsigned)

IsZerofill(f) == HasFlag(f.flags, flagZeroFill)

\* mysqlField.IsBinary
IsBinary(f) == HasFlag(f.flags, flagBinary)

\* mysqlNameFor; version v tells the two spellings of the SHORT code apart
mysqlNameFor(v, fieldType) ==
    CASE fieldType = fieldTypeTiny -> "TINYINT"
      [] fieldType = fieldTypeShort -> (IF v = "args" THEN "SHORTINT" ELSE "SMALLINT")
      [] fieldType \in {fieldTypeInt24, fieldTypeLong} -> "INT"
      [] fieldType = fieldTypeLongLong -> "BIGINT"
      [] fieldType = fieldTypeFloat -> "FLOAT"
      [] fieldType = fieldTypeDouble -> "DOUBLE"
      [] fieldType \in {fieldTypeDecimal, fieldTypeNewDecimal} -> "DECIMAL"
      [] fieldType = fieldTypeYear -> "YEAR"
      [] fieldType \in {fieldTypeDate, fieldTypeNewDate} -> "DATE"
      [] fieldType = fieldTypeTime -> "TIME"
      [] fieldType = fieldTypeTimestamp -> "TIMESTAMP"
      [] fieldType = fieldTypeDateTime -> "DATETIME"
      [] fieldType = fieldTypeNULL -> "NULL"
      [] fieldType = fieldTypeBit -> "BIT"
      [] fieldType \in {fieldTypeVarChar, fieldTypeVarString} -> "VARCHAR"
      [] fieldType = fieldTypeString -> "CHAR"
      [] fieldType = fieldTypeEnum -> "ENUM"
      [] fieldType = fieldTypeSet -> "SET"
      [] fieldType = fieldTypeTinyBLOB -> "TINY BLOB"
      [] fieldType = fieldTypeMediumBLOB -> "MEDIUM BLOB"
      [] fieldType = fieldTypeBLOB -> "BLOB"
      [] fieldType = fieldTypeLongBLOB -> "LONG BLOB"
      [] fieldType = fieldTypeGeometry -> "GEOMETRY"
      [] OTHER -> ""

\* errorTypeMismatch(fieldType).Error()
errorTypeMismatch(v, fieldType) == "no matching go type for " \o mysqlNameFor(v, fieldType)

\* a (reflect.Type, error) result: the type by its name, "" for nil
GoType(t) == [type |-> t, err |-> ""]

NoGoType(e) == [type |-> "", err |-> e]

\* ReflectType without the test of the unsigned flag
ReflectType_signed(v, f) ==
    CASE f.fieldType = fieldTypeTiny -> GoType("int8")
      [] f.fieldType = fieldTypeShort -> GoType("int16")
      [] f.fieldType \in {fieldTypeInt24, fieldTypeLong} -> GoType("int32")
      [] f.fieldType = fieldTypeLongLong -> GoType("int64")
      [] f.fieldType = fieldTypeFloat -> GoType("float32")
      [] f.fieldType = fieldTypeDouble -> GoType("float64")
      [] f.fieldType \in {fieldTypeDecimal, fieldTypeNewDecimal} -> GoType("*big.Int")
      [] IsTime(f) -> GoType("time.Time")
      [] f.fieldType = fieldTypeBit -> GoType("[]bool")
      [] IsText(f) -> GoType("string")
      [] IsBlob(f) -> GoType("[]uint8")
      [] f.fieldType \in {fieldTypeEnum, fieldTypeSet, fieldTypeGeometry, fieldTypeNULL}
           -> NoGoType(errorTypeMismatch(v, f.fieldType))
      [] OTHER -> NoGoType("unknown mysql type")

\* src/mysql/mysql.go ReflectType (ReflectGoType in the other copies)
ReflectType(v, f) ==
    IF IsUnsigned(f) /\ f.fieldType = fieldTypeTiny THEN GoType("uint8")
    ELSE IF IsUnsigned(f) /\ f.fieldType = fieldTypeShort THEN GoType("uint16")
    ELSE IF IsUnsigned(f) /\ f.fieldType \in {fieldTypeInt24, fieldTypeLong} THEN GoType("uint32")
    ELSE IF IsUnsigned(f) /\ f.fieldType = fieldTypeLongLong THEN GoType("uint64")
    ELSE CASE f.fieldType = fieldTypeTiny -> GoType("int8")
           [] f.fieldType = fieldTypeShort -> GoType("int16")
           [] f.fieldType \in {fieldTypeInt24, fieldTypeLong} -> GoType("int32")
           [] f.fieldType = fieldTypeLongLong -> GoType("int64")
           [] f.fieldType = fieldTypeFloat -> GoType("float32")
           [] f.fieldType = fieldTypeDouble -> GoType("float64")
           [] f.fieldType \in {fieldTypeDecimal, fieldTypeNewDecimal} -> GoType("*big.Int")
           [] IsTime(f) -> GoType("time.Time")
           [] f.fieldType = fieldTypeBit -> GoType("[]bool")
           [] IsText(f) -> GoType("string")
           [] IsBlob(f) -> GoType("[]uint8")
           [] f.fieldType \in {fieldTypeEnum, fieldTypeSet, fieldTypeGeometry, fieldTypeNULL}
                -> NoGoType(errorTypeMismatch(v, f.fieldType))
           [] OTHER -> NoGoType("unknown mysql type")

\* ReflectSqlType with forceNullable ignored
ReflectSqlType_notForced(f, forceNullable) ==
    IF ~IsNotNull(f)
    THEN CASE IsInteger(f) -> GoType("sql.NullInt64")
           [] IsFloatingPoint(f) -> GoType("sql.NullFloat64")
           [] IsText(f) -> GoType("sql.NullString")
           [] IsTime(f) -> GoType("mysql.NullTime")
           [] IsBlob(f) -> GoType("[]uint8")
           [] OTHER -> NoGoType(errorTypeMismatch("decimals", f.fieldType))
    ELSE ReflectType("decimals", f)

\* ReflectSqlType of the "decimals" version: a nullable column, or any column
\* when forceNullable, maps to the sql.Null type of its category; every other
\* column to what ReflectGoType answers
ReflectSqlType(f, forceNullable) ==
    IF forceNullable \/ ~IsNotNull(f)
    THEN CASE IsInteger(f) -> GoType("sql.NullInt64")
           [] IsFloatingPoint(f) -> GoType("sql.NullFloat64")
           [] IsText(f) -> GoType("sql.NullString")
           [] IsTime(f) -> GoType("mysql.NullTime")
           [] IsBlob(f) -> GoType("[]uint8")
           [] OTHER -> NoGoType(errorTypeMismatch("decimals", f.fieldType))
    ELSE ReflectType("decimals", f)

ParamUnknown == 0

ParamNone == 1

ParamMayLength == 2

ParamMustLength == 3

ParamMayLengthAndDecimals == 4

ParamMayLengthMayDecimals == 5

\* ParamOneOrMore in src/mysql/mysql.go, ParamValues in src/mysql/mysql_test.go
ParamOneOrMore == 6

\* mysql_MysqlParameters with FLOAT and DOUBLE in the category of DECIMAL
mysql_MysqlParameters_floatAsDecimal(f) ==
    IF IsTime(f) \/ IsBlob(f) \/ f.fieldType = fieldTypeGeometry THEN ParamNone
    ELSE IF f.fieldType = fieldTypeBit \/ IsInteger(f) \/ f.fieldType = fieldTypeString
         THEN ParamMayLength
    ELSE IF IsDecimal(f) \/ IsFloatingPoint(f) THEN ParamMayLengthMayDecimals
    ELSE IF f.fieldType \in {fieldTypeVarChar, fieldTypeVarString} THEN ParamMustLength
    ELSE IF f.fieldType \in {fieldTypeEnum, fieldTypeSet} THEN ParamOneOrMore
    ELSE ParamUnknown

\* src/mysql/mysql.go MysqlParameters
mysql_MysqlParameters(f) ==
    IF IsTime(f) \/ IsBlob(f) \/ f.fieldType = fieldTypeGeometry THEN ParamNone
    ELSE IF f.fieldType = fieldTypeBit \/ IsInteger(f) \/ f.fieldType = fieldTypeString
         THEN ParamMayLength
    ELSE IF IsDecimal(f) THEN ParamMayLengthMayDecimals
    ELSE IF IsFloatingPoint(f) THEN ParamMayLengthAndDecimals
    ELSE IF f.fieldType \in {fieldTypeVarChar, fieldTypeVarString} THEN ParamMustLength
    ELSE IF f.fieldType \in {fieldTypeEnum, fieldTypeSet} THEN ParamOneOrMore
    ELSE ParamUnknown

\* src/mysql/mysql_test.go MysqlParameters
decimals_MysqlParameters(f) ==
    IF IsTime(f) \/ IsBlob(f) \/ f.fieldType = fieldTypeGeometry THEN ParamNone
    ELSE IF \/ f.fieldType = fieldTypeBit
            \/ IsInteger(f)
            \/ f.fieldType = fieldTypeString
            \/ IsDecimal(f)
            \/ IsFloatingPoint(f)
         THEN ParamMayLength
    ELSE IF f.fieldType \in {fieldTypeVarChar, fieldTypeVarString} THEN ParamMustLength
    ELSE IF f.fieldType \in {fieldTypeEnum, fieldTypeSet} THEN ParamOneOrMore
    ELSE ParamUnknown

MysqlParameters(v, f) ==
    IF v = "args" THEN mysql_MysqlParameters(f) ELSE decimals_MysqlParameters(f)

errNil == "can't create declaration for NULL"

errUnknown == "parameter error, unknown"

errNone == "parameter error, must be none"

errMayLength == "parameter error, must be none or one int (length)"

errMustLength == "parameter error, must be one int (length)"

errMayLengthAndDecimals == "parameter error, must be none or two ints (length, decimals)"

errMayLengthMayDecimals ==
    "parameter error, must be none, one int (length) or two ints (length, decimals)"

errEnumOrSet == "parameter error, must be at least one entry"

\* the int n and the string x as arguments
IntArg(n) == [isInt |-> TRUE, int |-> n, str |-> ""]

StrArg(x) == [isInt |-> FALSE, int |-> 0, str |-> x]

\* fmt verb %d applied to an argument
FmtD(a) == IF a.isInt THEN ToString(a.int) ELSE "%!d(string=" \o a.str \o ")"

\* fmt verb %v applied to an argument
FmtV(a) == IF a.isInt THEN ToString(a.int) ELSE a.str

RECURSIVE FmtExtra(_, _)
\* the arguments from position i on as fmt lists surplus arguments
FmtExtra(args, i) ==
    IF i > Len(args) THEN ""
    ELSE (IF args[i].isInt THEN "int=" ELSE "string=") \o FmtV(args[i])
         \o (IF i < Len(args) THEN ", " ELSE "") \o FmtExtra(args, i + 1)

\* fmt.Sprintf("(%v)", args...) for one or more arguments
SprintfValues(args) ==
    "(" \o FmtV(args[1]) \o ")"
    \o (IF Len(args) > 1 THEN "%!(EXTRA " \o FmtExtra(args, 2) \o ")" ELSE "")

\* a (string, error) result
Param(p) == [param |-> p, err |-> ""]

ParamErr(e) == [param |-> "", err |-> e]

\* argsToParam accepting a length of 0
argsToParam_zeroLength(args, ptype, err) ==
    IF ptype = ParamUnknown THEN ParamErr(errUnknown)
    ELSE IF Len(args) = 0
         THEN (IF ptype \in {ParamNone, ParamMayLength, ParamMayLengthAndDecimals,
                             ParamMayLengthMayDecimals}
               THEN Param("") ELSE ParamErr(err))
    ELSE IF ptype = ParamOneOrMore THEN Param(SprintfValues(args))
    ELSE IF Len(args) > 2 THEN ParamErr(err)
    ELSE IF ~args[1].isInt \/ args[1].int < 0 THEN ParamErr(err)
    ELSE IF Len(args) = 2
         THEN (IF ~args[2].isInt \/ args[2].int < 0 THEN ParamErr(err)
               ELSE IF ptype \in {ParamMayLengthAndDecimals, ParamMayLengthMayDecimals}
               THEN Param("(" \o FmtD(args[1]) \o "," \o FmtD(args[2]) \o ")")
               ELSE ParamErr(err))
    ELSE IF ptype \in {ParamMayLength, ParamMustLength, ParamMayLengthMayDecimals}
         THEN Param("(" \o FmtD(args[1]) \o ")")
    ELSE ParamErr(err)

\* src/mysql/mysql.go MysqlDeclaration, the closure argsToParam
argsToParam(args, ptype, err) ==
    IF ptype = ParamUnknown THEN ParamErr(errUnknown)
    ELSE IF Len(args) = 0
         THEN (IF ptype \in {ParamNone, ParamMayLength, ParamMayLengthAndDecimals,
                             ParamMayLengthMayDecimals}
               THEN Param("") ELSE ParamErr(err))
    ELSE IF ptype = ParamOneOrMore THEN Param(SprintfValues(args))
    ELSE IF Len(args) > 2 THEN ParamErr(err)
    ELSE IF ~args[1].isInt \/ args[1].int <= 0 THEN ParamErr(err)
    ELSE IF Len(args) = 2
         THEN (IF ~args[2].isInt \/ args[2].int < 0 THEN ParamErr(err)
               ELSE IF ptype \in {ParamMayLengthAndDecimals, ParamMayLengthMayDecimals}
               THEN Param("(" \o FmtD(args[1]) \o "," \o FmtD(args[2]) \o ")")
               ELSE ParamErr(err))
    ELSE IF ptype \in {ParamMayLength, ParamMustLength, ParamMayLengthMayDecimals}
         THEN Param("(" \o FmtD(args[1]) \o ")")
    ELSE ParamErr(err)

\* the error MysqlDeclaration hands to argsToParam for a category
ParamError(ptype) ==
    CASE ptype = ParamNone -> errNone
      [] ptype = ParamMayLength -> errMayLength
      [] ptype = ParamMayLengthMayDecimals -> errMayLengthMayDecimals
      [] ptype = ParamMayLengthAndDecimals -> errMayLengthAndDecimals
      [] ptype = ParamMustLength -> errMustLength
      [] ptype = ParamOneOrMore -> errEnumOrSet
      [] OTHER -> errUnknown

\* mysql_param handing every category to argsToParam as ParamMayLength
mysql_param_anyMayLength(f, args) ==
    LET ptype == mysql_MysqlParameters(f)
    IN  IF ptype = ParamUnknown THEN ParamErr(errUnknown)
        ELSE argsToParam(args, ParamMayLength, ParamError(ptype))

\* src/mysql/mysql.go MysqlDeclaration lines 459-476: the parameter fragment
mysql_param(f, args) ==
    LET ptype == mysql_MysqlParameters(f)
    IN  IF ptype = ParamUnknown THEN ParamErr(errUnknown)
        ELSE argsToParam(args, ptype, ParamError(ptype))

\* src/mysql/mysql_test.go MysqlDeclaration lines 557-613: the parameter
\* fragment
decimals_param(f, args) ==
    IF IsFloatingPoint(f) \/ IsDecimal(f)
    THEN (IF Len(args) = 1
          THEN Param("(" \o FmtD(args[1]) \o "," \o ToString(f.decimals) \o ")")
          ELSE Param(""))
    ELSE IF IsInteger(f) THEN Param("")
    ELSE IF f.fieldType = fieldTypeBit
         THEN (IF Len(args) # 1 THEN ParamErr(errMustLength)
               ELSE Param("(" \o FmtD(args[1]) \o ")"))
    ELSE IF \/ f.fieldType \in {fieldTypeYear, fieldTypeDate, fieldTypeNewDate}
            \/ IsBlob(f)
            \/ f.fieldType = fieldTypeGeometry
         THEN Param("")
    ELSE IF f.fieldType \in {fieldTypeVarChar, fieldTypeVarString}
         THEN (IF Len(args) # 1 THEN ParamErr(errMustLength)
               ELSE Param("(" \o FmtD(args[1]) \o ")"))
    ELSE IF f.fieldType = fieldTypeString
         THEN (IF Len(args) = 1 THEN Param("(" \o FmtD(args[1]) \o ")") ELSE Param(""))
    ELSE IF f.fieldType \in {fieldTypeTime, fieldTypeTimestamp, fieldTypeDateTime}
         THEN (IF f.decimals > 0 THEN Param("(" \o ToString(f.decimals) \o ")") ELSE Param(""))
    ELSE IF f.fieldType \in {fieldTypeEnum, fieldTypeSet}
         THEN (IF Len(args) = 0 THEN ParamErr(errEnumOrSet) ELSE Param(SprintfValues(args)))
    ELSE ParamErr(errUnknown)

\* the variables us, zf, bin, nn of MysqlDeclaration (the same in both
\* versions)
us(f) == IF IsNumber(f) /\ IsUnsigned(f) THEN " UNSIGNED" ELSE ""

zf(f) == IF IsNumber(f) /\ IsZerofill(f) THEN " ZEROFILL" ELSE ""

bin(f) == IF IsText(f) /\ IsBinary(f) THEN " BINARY" ELSE ""

nn(f) == IF IsNotNull(f) THEN " NOT NULL" ELSE ""

\* a (string, error) result of MysqlDeclaration
Decl(d) == [decl |-> d, err |-> ""]

DeclErr(e) == [decl |-> "", err |-> e]

\* MysqlDeclaration joining zerofill ahead of unsigned
MysqlDeclaration_zfFirst(v, f, args) ==
    LET p == IF v = "args" THEN mysql_param(f, args) ELSE decimals_param(f, args)
    IN  IF f.fieldType = fieldTypeNULL THEN DeclErr(errNil)
        ELSE IF p.err # "" THEN DeclErr(p.err)
        ELSE Decl(mysqlNameFor(v, f.fieldType) \o p.param \o bin(f) \o zf(f) \o us(f) \o nn(f))

\* MysqlDeclaration of version v
MysqlDeclaration(v, f, args) ==
    LET p == IF v = "args" THEN mysql_param(f, args) ELSE decimals_param(f, args)
    IN  IF f.fieldType = fieldTypeNULL THEN DeclErr(errNil)
        ELSE IF p.err # "" THEN DeclErr(p.err)
        ELSE Decl(mysqlNameFor(v, f.fieldType) \o p.param \o bin(f) \o us(f) \o zf(f) \o nn(f))

(***************************************************************************)
(* The methods of mysqlField under test (specification ColumnSpec): one    *)
(* call of the predicates, of ReflectType, ReflectSqlType, MysqlType,      *)
(* MysqlParameters or MysqlDeclaration on a field, in either version.      *)
(***************************************************************************)
\* largest number of arguments handed to MysqlDeclaration
MaxArgs == 3

ColumnVersions == {"args", "decimals"}

\* the flags the methods read, in every combination
FieldFlags ==
    {a + b + c + d : a \in {0, flagNotNULL}, b \in {0, flagUnsigned},
                     c \in {0, flagZeroFill}, d \in {0, flagBinary}}

\* the type codes with a case in some switch of the source
DeclaredTypes == (0..16) \cup (246..255)

\* the type codes MysqlDeclaration is called with: the declared ones and two
\* that no switch of the source names
DeclarationTypes == DeclaredTypes \cup {17, 245}

\* the values passed as arguments: ints above, at and below zero, a string
ArgValues == {IntArg(2), IntArg(0), IntArg(-1), StrArg("x")}

ArgLists == UNION {[1..n -> ArgValues] : n \in 0..MaxArgs}

\* f.decimals as the driver may have filled it in ("args" has no such field)
DecimalsOf(v) == IF v = "args" THEN {0} ELSE {0, 3}

\* IsInteger, IsFloatingPoint, IsDecimal, IsText, IsBlob, IsTime are called
\* on the field: the names of those that return true
PredicatesCall ==
    /\ column.fn = "Is"
    /\ ~column.res.done
    /\ column' = [column EXCEPT !.res =
            [NoResult_column EXCEPT
                !.done = TRUE,
                !.cats = (IF IsInteger(column.f) THEN {"IsInteger"} ELSE {})
                         \cup (IF IsFloatingPoint(column.f) THEN {"IsFloatingPoint"} ELSE {})
                         \cup (IF IsDecimal(column.f) THEN {"IsDecimal"} ELSE {})
                         \cup (IF IsText(column.f) THEN {"IsText"} ELSE {})
                         \cup (IF IsBlob(column.f) THEN {"IsBlob"} ELSE {})
                         \cup (IF IsTime(column.f) THEN {"IsTime"} ELSE {})]]
    /\ UNCHANGED mirror
    /\ UNCHANGED colVars
    /\ UNCHANGED inspVars

\* f.ReflectType() / f.ReflectGoType() is called
ReflectTypeCall ==
    /\ column.fn = "ReflectType"
    /\ ~column.res.done
    /\ LET r == ReflectType(column.v, column.f)
       IN  column' = [column EXCEPT !.res =
                [NoResult_column EXCEPT !.done = TRUE, !.type = r.type, !.err = r.err]]
    /\ UNCHANGED mirror
    /\ UNCHANGED colVars
    /\ UNCHANGED inspVars

\* MysqlDeclaration recording a failure in the flags of the first use
MysqlDeclarationCall_marksFailed ==
    /\ column.fn = "MysqlDeclaration"
    /\ ~column.res.done
    /\ LET r == MysqlDeclaration(column.v, column.f, column.args)
       IN  /\ column' = [column EXCEPT !.res =
                [NoResult_column EXCEPT !.done = TRUE, !.decl = r.decl, !.err = r.err]]
           /\ failedInit' = (failedInit \/ r.err # "")
    /\ UNCHANGED mirror
    /\ UNCHANGED <<build, structsChecked, initMutex, pc, call, last, calls, verified, first>>
    /\ UNCHANGED inspVars

\* f.MysqlDeclaration(args...) is called
MysqlDeclarationCall ==
    /\ column.fn = "MysqlDeclaration"
    /\ ~column.res.done
    /\ LET r == MysqlDeclaration(column.v, column.f, column.args)
       IN  column' = [column EXCEPT !.res =
                [NoResult_column EXCEPT !.done = TRUE, !.decl = r.decl, !.err = r.err]]
    /\ UNCHANGED mirror
    /\ UNCHANGED colVars
    /\ UNCHANGED inspVars

\* f.ReflectSqlType(forceNullable) is called
ReflectSqlTypeCall ==
    /\ column.fn = "ReflectSqlType"
    /\ ~column.res.done
    /\ LET r == ReflectSqlType(column.f, column.forceNullable)
       IN  column' = [column EXCEPT !.res =
                [NoResult_column EXCEPT !.done = TRUE, !.type = r.type, !.err = r.err]]
    /\ UNCHANGED mirror
    /\ UNCHANGED colVars
    /\ UNCHANGED inspVars

\* MysqlType with no name for the NULL code
MysqlTypeCall_emptyForNull ==
    /\ column.fn = "MysqlType"
    /\ ~column.res.done
    /\ column' = [column EXCEPT !.res =
            [NoResult_column EXCEPT
                !.done = TRUE,
                !.name = IF column.f.fieldType = fieldTypeNULL THEN ""
                         ELSE mysqlNameFor(column.v, column.f.fieldType)]]
    /\ UNCHANGED mirror
    /\ UNCHANGED colVars
    /\ UNCHANGED inspVars

\* f.MysqlType() is called
MysqlTypeCall ==
    /\ column.fn = "MysqlType"
    /\ ~column.res.done
    /\ column' = [column EXCEPT !.res =
            [NoResult_column EXCEPT
                !.done = TRUE, !.name = mysqlNameFor(column.v, column.f.fieldType)]]
    /\ UNCHANGED mirror
    /\ UNCHANGED colVars
    /\ UNCHANGED inspVars

\* f.MysqlParameters() is called
MysqlParametersCall ==
    /\ column.fn = "MysqlParameters"
    /\ ~column.res.done
    /\ column' = [column EXCEPT !.res =
            [NoResult_column EXCEPT
                !.done = TRUE, !.ptype = MysqlParameters(column.v, column.f)]]
    /\ UNCHANGED mirror
    /\ UNCHANGED colVars
    /\ UNCHANGED inspVars

\* the methods of mysqlField one call is made of
ColumnMethods ==
    {"Is", "ReflectType", "ReflectSqlType", "MysqlType", "MysqlParameters",
     "MysqlDeclaration"}

\* the type codes the const blocks of a version declare: package
\* mysqlinternals, which the "decimals" version is compiled in, adds JSON
DeclaredCodes(v) ==
    IF v = "args" THEN DeclaredTypes ELSE DeclaredTypes \cup {fieldTypeJSON}

\* a method of mysqlField is about to be called on a field; the flags of the
\* first use of Columns are as package initialisation leaves them or as an
\* earlier use of Columns has left them
ColumnInit ==
    /\ build = "mysql"
    /\ ver = ColumnsInspect
    /\ structsChecked \in BOOLEAN
    /\ failedInit \in BOOLEAN
    /\ ~(structsChecked /\ failedInit)
    /\ initMutex = 0
    /\ pc = [p \in Procs |-> "idle"]
    /\ call = [p \in Procs |-> NoCall]
    /\ last = NoLast
    /\ calls = 0
    /\ verified = {}
    /\ first = [arg |-> NilCursor, op |-> "", ret |-> "", done |-> FALSE]
    /\ InspInit
    /\ mirror = NoMirrorCall
    /\ \E v \in ColumnVersions, fn \in ColumnMethods :
         \E t \in (IF fn = "MysqlDeclaration" THEN DeclarationTypes ELSE 0..255),
            fl \in FieldFlags,
            d \in DecimalsOf(v),
            a \in (IF fn = "MysqlDeclaration" THEN ArgLists ELSE {<<>>}),
            force \in (IF fn = "ReflectSqlType" THEN BOOLEAN ELSE {FALSE}) :
                /\ fn = "ReflectSqlType" => v = "decimals"
                /\ column = [v |-> v, fn |-> fn,
                             f |-> [fieldType |-> t, flags |-> fl, decimals |-> d],
                             args |-> a, forceNullable |-> force,
                             res |-> NoResult_column]

ColumnNext ==
    \/ PredicatesCall
    \/ ReflectTypeCall
    \/ ReflectSqlTypeCall
    \/ MysqlTypeCall
    \/ MysqlParametersCall
    \/ MysqlDeclarationCall

ColumnSpec == ColumnInit /\ [][ColumnNext]_vars

\* MysqlDeclaration of the version with argsToParam has returned
Declared == column.fn = "MysqlDeclaration" /\ column.v = "args" /\ column.res.done

\* MysqlDeclaration has returned a declaration and no error
Accepted == column.res.err = "" /\ column.res.decl # ""

\* MysqlDeclaration has returned the error e and no declaration
Rejected(e) == column.res.err = e /\ column.res.decl = ""

\* args is one int above zero
OneLength(args) == Len(args) = 1 /\ args[1].isInt /\ args[1].int > 0

\* args is two ints, the first above zero, the second not below it
LengthAndDecimals(args) ==
    /\ Len(args) = 2
    /\ args[1].isInt /\ args[1].int > 0
    /\ args[2].isInt /\ args[2].int >= 0

\* C14: no type code is in two of the categories integer, floating point,
\* decimal, text, blob, temporal: for every byte at most one of the six
\* predicates returns true.
C14_OneCategory ==
    (column.fn = "Is" /\ column.res.done) => Cardinality(column.res.cats) <= 1

\* the predicates have run on a text code and on it only IsText is true
C14_Witness ==
    /\ column.fn = "Is"
    /\ column.res.done
    /\ column.f.fieldType = fieldTypeVarString
    /\ column.res.cats = {"IsText"}

\* C15: for VARCHAR / VAR_STRING, MysqlDeclaration succeeds exactly when args
\* is one positive int L and then returns "VARCHAR(L)" with the BINARY and
\* NOT NULL suffixes the flags ask for; any other args yield the error for a
\* mandatory length.
C15_MandatoryLength ==
    (Declared /\ column.f.fieldType \in {fieldTypeVarChar, fieldTypeVarString}) =>
        IF OneLength(column.args)
        THEN /\ column.res.err = ""
             /\ column.res.decl =
                    "VARCHAR(" \o ToString(column.args[1].int) \o ")"
                    \o (IF HasFlag(column.f.flags, flagBinary) THEN " BINARY" ELSE "")
                    \o (IF HasFlag(column.f.flags, flagNotNULL) THEN " NOT NULL" ELSE "")
        ELSE Rejected(errMustLength)

\* a not-null VARCHAR field declared with [2] gave "VARCHAR(2) NOT NULL"
C15_Witness ==
    /\ Declared
    /\ column.f.fieldType = fieldTypeVarChar
    /\ column.f.flags = flagNotNULL
    /\ column.args = <<IntArg(2)>>
    /\ column.res.decl = "VARCHAR(2) NOT NULL"

\* the errors of type paramErr
ParameterErrors ==
    {errNil, errUnknown, errNone, errMayLength, errMustLength, errMayLengthAndDecimals,
     errMayLengthMayDecimals, errEnumOrSet}

\* the UNSIGNED, ZEROFILL and NOT NULL suffixes of a numeric field
NumericSuffixes(f) ==
    (IF HasFlag(f.flags, flagUnsigned) THEN " UNSIGNED" ELSE "")
    \o (IF HasFlag(f.flags, flagZeroFill) THEN " ZEROFILL" ELSE "")
    \o (IF HasFlag(f.flags, flagNotNULL) THEN " NOT NULL" ELSE "")

\* C16: for DECIMAL / NEWDECIMAL, MysqlDeclaration with empty args succeeds
\* and returns the name and suffixes without a parenthesized fragment; with
\* two args whose second is not an int >= 0 it fails with a parameter error
\* and returns no declaration.
C16_DecimalArgs ==
    (column.fn = "MysqlDeclaration" /\ column.res.done /\ IsDecimal(column.f)) =>
        /\ column.args = <<>> =>
                /\ column.res.err = ""
                /\ column.res.decl = "DECIMAL" \o NumericSuffixes(column.f)
        /\ (Len(column.args) = 2 /\ ~(column.args[2].isInt /\ column.args[2].int >= 0)) =>
                /\ column.res.err \in ParameterErrors
                /\ column.res.decl = ""

\* C17: for FLOAT, DOUBLE, DECIMAL and NEWDECIMAL, MysqlDeclaration accepts
\* args exactly when they are empty, one int > 0, or two ints with length > 0
\* and decimals >= 0, and rejects any other args with a parameter error.
C17_LengthAndDecimals ==
    (Declared /\ (IsFloatingPoint(column.f) \/ IsDecimal(column.f))) =>
        IF column.args = <<>> \/ OneLength(column.args) \/ LengthAndDecimals(column.args)
        THEN Accepted
        ELSE column.res.err \in ParameterErrors /\ column.res.decl = ""

\* C17 as amended: for DECIMAL and NEWDECIMAL, MysqlDeclaration accepts args
\* exactly when they are empty, one int > 0, or two ints with length > 0 and
\* decimals >= 0; for FLOAT and DOUBLE exactly when they are empty or two
\* such ints; any other args are rejected with the error of the category.
C17_DecimalOrFloat ==
    /\ (Declared /\ IsDecimal(column.f)) =>
            IF column.args = <<>> \/ OneLength(column.args) \/ LengthAndDecimals(column.args)
            THEN Accepted
            ELSE Rejected(errMayLengthMayDecimals)
    /\ (Declared /\ IsFloatingPoint(column.f)) =>
            IF column.args = <<>> \/ LengthAndDecimals(column.args)
            THEN Accepted
            ELSE Rejected(errMayLengthAndDecimals)

\* a FLOAT field declared with one length was rejected
C17_Witness ==
    /\ Declared
    /\ column.f.fieldType = fieldTypeFloat
    /\ column.args = <<IntArg(2)>>
    /\ Rejected(errMayLengthAndDecimals)

\* C18: with argsToParam, a temporal, blob or geometry code accepts empty
\* args only, and BIT, the integer codes and CHAR accept args exactly when
\* they are empty or one int > 0; anything else is a parameter error.
C18_NoneAndOptionalLength ==
    /\ (Declared /\ (IsTime(column.f) \/ IsBlob(column.f)
                     \/ column.f.fieldType = fieldTypeGeometry)) =>
            IF column.args = <<>> THEN Accepted ELSE Rejected(errNone)
    /\ (Declared /\ (column.f.fieldType \in {fieldTypeBit, fieldTypeString}
                     \/ IsInteger(column.f))) =>
            IF column.args = <<>> \/ OneLength(column.args) THEN Accepted
            ELSE Rejected(errMayLength)

\* a BLOB field declared with one length was rejected, a CHAR field was not
C18_Witness ==
    /\ Declared
    /\ \/ /\ column.f.fieldType = fieldTypeBLOB
          /\ column.args = <<IntArg(2)>>
          /\ Rejected(errNone)
       \/ /\ column.f.fieldType = fieldTypeString
          /\ column.args = <<IntArg(2)>>
          /\ column.res.decl = "CHAR(2)"

\* the parameter fragment MysqlDeclaration of the version builds
Fragment(v, f, args) ==
    IF v = "args" THEN mysql_param(f, args).param ELSE decimals_param(f, args).param

\* C19: on success MysqlDeclaration returns the type name, the parameter
\* fragment, " BINARY" (CHAR / VARCHAR / VAR_STRING with the binary flag),
\* " UNSIGNED" and " ZEROFILL" (integer, floating point and decimal codes with
\* the flag), " NOT NULL" (any code with the flag), in this order and nothing
\* else.
C19_SuffixOrder ==
    (column.fn = "MysqlDeclaration" /\ column.res.done /\ column.res.err = "") =>
        column.res.decl =
            mysqlNameFor(column.v, column.f.fieldType)
            \o Fragment(column.v, column.f, column.args)
            \o (IF /\ column.f.fieldType \in {fieldTypeString, fieldTypeVarChar,
                                              fieldTypeVarString}
                   /\ HasFlag(column.f.flags, flagBinary)
                THEN " BINARY" ELSE "")
            \o (IF /\ IsInteger(column.f) \/ IsFloatingPoint(column.f) \/ IsDecimal(column.f)
                   /\ HasFlag(column.f.flags, flagUnsigned)
                THEN " UNSIGNED" ELSE "")
            \o (IF /\ IsInteger(column.f) \/ IsFloatingPoint(column.f) \/ IsDecimal(column.f)
                   /\ HasFlag(column.f.flags, flagZeroFill)
                THEN " ZEROFILL" ELSE "")
            \o (IF HasFlag(column.f.flags, flagNotNULL) THEN " NOT NULL" ELSE "")

\* an INT field with every flag set was declared: the binary flag adds
\* nothing, the other three appear in order
C19_Witness ==
    /\ column.fn = "MysqlDeclaration"
    /\ column.res.done
    /\ column.f.fieldType = fieldTypeLong
    /\ column.f.flags = flagNotNULL + flagUnsigned + flagZeroFill + flagBinary
    /\ column.args = <<IntArg(2)>>
    /\ column.res.decl \in {"INT(2) UNSIGNED ZEROFILL NOT NULL", "INT UNSIGNED ZEROFILL NOT NULL"}

\* the width in bits of the Go integer for an integer code
IntegerWidth(fieldType) ==
    CASE fieldType = fieldTypeTiny -> 8
      [] fieldType = fieldTypeShort -> 16
      [] fieldType \in {fieldTypeInt24, fieldTypeLong} -> 32
      [] fieldType = fieldTypeLongLong -> 64

\* C20: for an integer code ReflectType returns uintN with the unsigned flag
\* set and intN with it clear, N the width of the code; for any other code
\* the result is the one for the same field with the unsigned flag clear.
C20_UnsignedIntegers ==
    (column.fn = "ReflectType" /\ column.res.done) =>
        IF IsInteger(column.f)
        THEN /\ column.res.err = ""
             /\ column.res.type =
                    (IF HasFlag(column.f.flags, flagUnsigned) THEN "uint" ELSE "int")
                    \o ToString(IntegerWidth(column.f.fieldType))
        ELSE LET g == [column.f EXCEPT
                        !.flags = IF HasFlag(@, flagUnsigned) THEN @ - flagUnsigned ELSE @]
                 r == ReflectType(column.v, g)
             IN  column.res.type = r.type /\ column.res.err = r.err

\* ReflectType has returned uint32 for an unsigned LONG field
C20_Witness ==
    /\ column.fn = "ReflectType"
    /\ column.res.done
    /\ column.f.fieldType = fieldTypeLong
    /\ HasFlag(column.f.flags, flagUnsigned)
    /\ column.res.type = "uint32"

(***************************************************************************)
(* Type mapping and names of the "decimals" version.                       *)
(***************************************************************************)
\* the four codes without a Go type
NoNativeMapping == {fieldTypeEnum, fieldTypeSet, fieldTypeGeometry, fieldTypeNULL}

\* C21: ReflectGoType is total over the declared type codes: for ENUM, SET,
\* GEOMETRY and NULL it returns no type and the errorTypeMismatch of the code,
\* for every other declared code a Go type and a nil error.
C21_TotalOverDeclared ==
    (/\ column.fn = "ReflectType"
     /\ column.v = "decimals"
     /\ column.res.done
     /\ column.f.fieldType \in DeclaredCodes(column.v)) =>
        IF column.f.fieldType \in NoNativeMapping
        THEN /\ column.res.type = ""
             /\ column.res.err = errorTypeMismatch(column.v, column.f.fieldType)
        ELSE /\ column.res.type # ""
             /\ column.res.err = ""

\* C22: ReflectSqlType(forceNullable), when forceNullable is true or the
\* not-null flag is clear, returns NullInt64 for integer codes, NullFloat64
\* for floating-point codes, NullString for text codes, NullTime for temporal
\* codes, []byte for blob codes and the errorTypeMismatch of the code for
\* every other code, decimal and bit included; otherwise it returns what
\* ReflectGoType returns for the field.
C22_NullableMapping ==
    (column.fn = "ReflectSqlType" /\ column.res.done) =>
        LET t == column.f.fieldType
            r == column.res
        IN  IF column.forceNullable \/ ~HasFlag(column.f.flags, flagNotNULL)
            THEN CASE t \in {fieldTypeTiny, fieldTypeShort, fieldTypeInt24,
                             fieldTypeLong, fieldTypeLongLong}
                        -> r.type = "sql.NullInt64" /\ r.err = ""
                   [] t \in {fieldTypeFloat, fieldTypeDouble}
                        -> r.type = "sql.NullFloat64" /\ r.err = ""
                   [] t \in {fieldTypeVarChar, fieldTypeVarString, fieldTypeString}
                        -> r.type = "sql.NullString" /\ r.err = ""
                   [] t \in {fieldTypeYear, fieldTypeDate, fieldTypeNewDate,
                             fieldTypeTime, fieldTypeTimestamp, fieldTypeDateTime}
                        -> r.type = "mysql.NullTime" /\ r.err = ""
                   [] t \in {fieldTypeTinyBLOB, fieldTypeMediumBLOB, fieldTypeBLOB,
                             fieldTypeLongBLOB}
                        -> r.type = "[]uint8" /\ r.err = ""
                   [] OTHER
                        -> r.type = "" /\ r.err = errorTypeMismatch(column.v, t)
            ELSE LET g == ReflectType(column.v, column.f)
                 IN  r.type = g.type /\ r.err = g.err

\* ReflectSqlType(true) has refused a NOT NULL DECIMAL column, which
\* ReflectGoType maps to *big.Int
C22_Witness ==
    /\ column.fn = "ReflectSqlType"
    /\ column.res.done
    /\ column.forceNullable
    /\ HasFlag(column.f.flags, flagNotNULL)
    /\ column.f.fieldType = fieldTypeNewDecimal
    /\ column.res.err = "no matching go type for DECIMAL"
    /\ ReflectType(column.v, column.f).type = "*big.Int"

\* C23: MysqlType returns the empty string for the codes with no defined
\* name, namely the NULL code, and a non-empty name for every other declared
\* code.
C23_EmptyForNull ==
    (column.fn = "MysqlType" /\ column.res.done) =>
        (column.res.name = ""
            <=> (\/ column.f.fieldType = fieldTypeNULL
                 \/ column.f.fieldType \notin DeclaredCodes(column.v)))

\* C23 as the code has it: MysqlType returns a non-empty name for each code
\* its switch names, "NULL" for the NULL code among them, and the empty
\* string for every other byte, the JSON code included.
C23_EmptyForUnnamed ==
    (column.fn = "MysqlType" /\ column.res.done) =>
        /\ column.res.name = "" <=> column.f.fieldType \notin DeclaredTypes
        /\ column.f.fieldType = fieldTypeNULL => column.res.name = "NULL"
        /\ column.f.fieldType = fieldTypeTiny => column.res.name = "TINYINT"

\* MysqlType has returned "NULL" for the NULL code
C23_Witness ==
    /\ column.fn = "MysqlType"
    /\ column.res.done
    /\ column.f.fieldType = fieldTypeNULL
    /\ column.res.name = "NULL"

\* the numbers of arguments a category of MysqlParameters allows
Conforms(ptype, n) ==
    CASE ptype = ParamNone -> n = 0
      [] ptype = ParamMayLength -> n \in {0, 1}
      [] ptype = ParamMustLength -> n = 1
      [] ptype = ParamOneOrMore -> n >= 1
      [] OTHER -> FALSE

\* C26: in the "decimals" version MysqlDeclaration accepts its arguments
\* exactly when their number conforms to the category MysqlParameters returns
\* for the field, and returns the unknown-parameter error exactly when the
\* category is ParamUnknown.
C26_CategoryMatchesDeclaration ==
    (column.fn = "MysqlDeclaration" /\ column.v = "decimals" /\ column.res.done) =>
        LET ptype == MysqlParameters(column.v, column.f)
        IN  /\ column.res.err = "" <=> Conforms(ptype, Len(column.args))
            /\ column.res.err = errUnknown <=> ptype = ParamUnknown

\* C24: a call of a method of mysqlField, whether it succeeds or fails,
\* leaves structsChecked, failedInit and initMutex as they were.
C24_CacheUntouched ==
    [][column' # column =>
            /\ structsChecked' = structsChecked
            /\ failedInit' = failedInit
            /\ initMutex' = initMutex]_vars

\* MysqlDeclaration has failed after the layout had been verified, and the
\* verdict is still there
C24_Witness ==
    /\ column.fn = "MysqlDeclaration"
    /\ column.res.done
    /\ column.res.err # ""
    /\ structsChecked
    /\ ~failedInit
    /\ initMutex = 0

(***************************************************************************)
(* What a positive answer of the matcher says about the two layouts.       *)
(***************************************************************************)
RECURSIVE SameLayout(_, _)
\* the two types occupy memory the same way: same kind and size, the same
\* layout of the elements (so arrays have the same length), and field by
\* field the same offset and layout
SameLayout(a, b) ==
    /\ a.kind = b.kind
    /\ a.size = b.size
    /\ Len(a.elem) = Len(b.elem)
    /\ \A i \in 1..Len(a.elem) : SameLayout(a.elem[i], b.elem[i])
    /\ Len(a.fields) = Len(b.fields)
    /\ \A i \in 1..Len(a.fields) :
            /\ a.fields[i].offset = b.fields[i].offset
            /\ SameLayout(a.fields[i].type, b.fields[i].type)

\* C30: when the matcher (CanConvertUnsafe with any budget, or canConvert)
\* returns true, the two struct types have the same total size, their array
\* fields the same length and their container fields the same element
\* layout at every level.
C30_TrueMeansSameLayout ==
    mirror.result = "true" => SameLayout(mirror.from, mirror.to)

(***************************************************************************)
(* The first-use section of Columns and driverRows: what the probe's       *)
(* outcome does to the flags, and how callers leave the section.           *)
(***************************************************************************)
\* the handle's type is a pointer to a struct of a name the probe knows
KnownName(b, id) ==
    LET t == TypeOf(id)
    IN  /\ t.kind = "ptr"
        /\ Elem(t).kind = "struct"
        /\ Elem(t).name \in (IF b = "mysql" THEN {"mysqlRows"}
                             ELSE {rowtypeBinary, rowtypeText})

\* cursor c yields a handle of the driver whose layout the probe accepts
Genuine(c) == ~NoDriverRows(c) /\ LayoutOK(build, dRowsOf(c).dyn)

\* cursor c yields a handle of another driver
Foreign(c) == ~NoDriverRows(c) /\ ~KnownName(build, dRowsOf(c).dyn)

\* in this step goroutine p leaves the section under the lock and returns
LeavesSection(p) == pc[p] = "locked" /\ pc'[p] = "idle"

\* C25: a first call that fails on the handle of another driver does not
\* poison the cache: the Columns call that follows it with a handle of the
\* driver's layout invokes initOffsets again and returns columns; and
\* whatever the earlier calls were and however they interleaved, a Columns
\* call with such a handle returns columns unless failedInit has been set,
\* which no handle of another driver does.
C25_ForeignHandleRecovers ==
    /\ (SecondAfterFirst /\ calls = 2 /\ Foreign(first.arg) /\ Genuine(last.arg)) =>
            /\ first.ret = "unavailable"
            /\ ~failedInit
            /\ last.probed
            /\ last.ret = "columns"
    /\ (last.op = "Columns" /\ last.seq > 0 /\ Genuine(last.arg) /\ ~failedInit) =>
            last.ret = "columns"

\* the second call, with a handle of the verified layout, has run the probe
\* and returned columns after a first call with another driver's handle
C25_Witness ==
    /\ SecondAfterFirst
    /\ calls = 2
    /\ Foreign(first.arg)
    /\ first.ret = "unavailable"
    /\ Genuine(last.arg)
    /\ last.probed
    /\ last.ret = "columns"

C28_LateCallerRefused ==
    [][\A p \in Procs :
            (/\ build = "mysqlinternals"
             /\ LeavesSection(p)
             /\ ~call[p].sawFailed
             /\ failedInit) =>
                (last'.ret = "unavailable" /\ ~last'.cast)]_vars

\* C29: initMutex is held only by a goroutine inside the first-use section,
\* and every call that has started returns (or the process has died of a
\* panic of another call).
C29_EveryCallReturns ==
    /\ [](\A p \in Procs : initMutex = p => pc[p] = "locked")
    /\ \A p \in Procs : (pc[p] # "idle") ~> (pc[p] = "idle" \/ Crashed)

\* every call has returned, the last of them from a failed probe under the
\* lock, and the mutex is free
C29_Witness ==
    /\ calls = MaxCalls
    /\ \A p \in Procs : pc[p] = "idle"
    /\ last.probed
    /\ last.ret = "unavailable"
    /\ initMutex = 0

====
